---- MODULE Spec2Model ----
(***************************************************************************)
(* Model of the yjs-pulsar relay: the document registry (docs), the        *)
(* document actor (YDoc), the peer session (setupWSConnection, onMessage,  *)
(* onClose), the broker topic with its shared subscription, the supervisor *)
(* reconnect, and the snapshot + replay restore of PulsarStorage.getDoc.   *)
(*                                                                         *)
(* The relay of src/server/utils.ts (lines 1-563) is run with STORAGE_TYPE *)
(* unset, so getStorage() is null, under three specifications:             *)
(*   Spec         one instance, two clients, every kind of frame;          *)
(*   SpecRetry    one instance, two clients, broker outages and retries;   *)
(*   SpecCluster  two instances with one client each;                      *)
(*   SpecDocs     one instance, two documents with one client each.        *)
(* SpecRestore runs PulsarStorage.getDoc of src/storage/pulsar-storage.ts  *)
(* against a topic and a snapshot object; SpecRestoreFair adds the         *)
(* fairness of its wall-clock cap.                                         *)
(* SpecServer runs the shell of src/server/index.ts: the authenticated     *)
(* upgrade, the keep-alive of each connection, the tear-down tasks of      *)
(* src/server/cleanup.ts and stop().                                       *)
(* SpecStore runs S3Storage of src/storage/s3.ts against a bucket.         *)
(* One document name is modelled; docs[i] is the registry entry of that    *)
(* name on instance i.                                                     *)
(***************************************************************************)
EXTENDS Integers, Sequences, FiniteSets, TLC

(* ---------------- bounds of the model ---------------- *)
\* YDoc objects one instance constructs over a run
MaxActors == 2
\* distinct CRDT updates the clients produce
MaxUpdates == 1
\* awareness clocks the clients use
MaxClock == 1
\* messages on the relay topic
MaxTopic == 2
\* broker outages during a run
MaxOutages == 1
\* connections the server shell is offered
MaxConns == 2
\* pings the keep-alive sends on one connection
MaxPings == 2

(* ---------------- program constants ---------------- *)
messageSync == 0
messageAwareness == 1
messageYjsSyncStep1 == 0
messageYjsUpdate == 2
MAX_RETRIES == 3
InternalError == 1011
Unauthorized == 401
NotFound == 404
Forbidden == 403

PULSAR_ORIGIN == "pulsar"

\* registry entries: X and Y are the entries of document "d1" on two
\* instances, Z is the entry of document "d2" on the instance of X
Inst == {"X", "Y", "Z"}
Peer == {"p1", "p2", "p3", "p4", "p5"}
\* the registry entry the request of a client leads to
Home(p) == IF p = "p3" THEN "Y" ELSE IF p = "p4" THEN "Z" ELSE "X"

DocNames == {"d1", "d2"}
\* docName of the request URL
DocName(i) == IF i = "Z" THEN "d2" ELSE "d1"

\* the topic name with the document name left out
getFullTopicNameShared(docName) == "persistent://tenant/namespace/prefix"

getFullTopicName(docName) == "persistent://tenant/namespace/prefix" \o docName
\* subscription: `${docName}-subscription`
SubscriptionName(docName) == docName \o "-subscription"

Updates == 1..MaxUpdates
ClientIds == {42}
Clocks == 1..MaxClock

ActorId == Inst \X (1..MaxActors)
NoDoc == <<"none", 0>>
InstOf(a) == a[1]

VARIABLES
  \* ---- registry and actors (utils.ts) ----
  docs,        \* docs: Map<string, YDoc>, per registry entry
  nActors,     \* YDoc objects constructed so far, per instance
  ydoc,        \* CRDT state of an actor: the set of updates integrated
  awStates,    \* awareness.states: client ids present
  awClock,     \* awareness.meta: clock per client id
  conns,       \* YDoc.conns: peer -> controlled awareness ids
  producer,    \* YDoc.producer: "null" | "open" | "closed"
  consumer,    \* YDoc.consumer: "null" | "open" | "closed"
  destroyed,   \* super.destroy() ran: the update/awareness observers are gone
  dClose,      \* destroy() calls awaiting Promise.all([closeProducer, closeConsumer])
  cstate,      \* creation of the actor: "none" | "creating" | "ready" | "failed"
  \* ---- broker client and supervisor ----
  net,         \* the broker is reachable from the instance
  clientOk,    \* pulsarClientContainer.client is connected
  outages,     \* outages so far
  rProbe,      \* reconnects awaiting checkPulsarConnection
  rClose,      \* reconnects awaiting client.close()
  \* ---- peer sessions ----
  sock,        \* "idle" | "setup" | "deadSetup" | "open" | "dead" | "closed"
  closeCode,   \* status the server closed the socket with (0: none)
  attached,    \* the actor the session's handlers are bound to
  gpc,         \* position of the peer's getYDoc call
  attempt,     \* getYDoc's attempt counter
  recv,        \* frames the server sent to the peer
  introduced,  \* awareness ids the peer introduced through its frames
  malformed,   \* the first peer that had a malformed frame dropped
  ret,         \* what getYDoc returned to the peer, as it was at the return
  \* ---- broker topic ----
  topic,       \* messages published, in order
  delivered,   \* per message: the consumer (actor) that received and acked it
  subExists,   \* the subscriptions that exist, by topic and name
  loop,        \* the actor's consumer loop: "none" | "running" | "exited"
  missed,      \* frames the socket emitted before a 'message' listener existed
  \* ---- restore (pulsar-storage.ts) ----
  rs,          \* state of the restore machine
  \* ---- server shell (index.ts, cleanup.ts, keep-alive of utils.ts) ----
  srv,         \* upgrade requests, keep-alive, tear-down tasks, stop()
  \* ---- object store (s3.ts) ----
  s3,          \* the bucket's objects and the outcome of the last getDoc
  \* ---- actors of one document in object-store mode (utils.ts, s3.ts) ----
  ps           \* the registry entry, the actors' states and the stored object

relayVars == <<docs, nActors, ydoc, awStates, awClock, conns, producer, consumer,
               destroyed, dClose, cstate, net, clientOk, outages, rProbe, rClose,
               sock, closeCode, attached, gpc, attempt, recv, introduced,
               malformed, ret, topic, delivered, subExists, loop,
               missed>>
vars == <<relayVars, rs, srv, s3, ps>>

NoRet == [how |-> "none", ready |-> FALSE, dying |-> FALSE, running |-> FALSE]

RelayInit ==
  /\ docs = [i \in Inst |-> NoDoc]
  /\ nActors = [i \in Inst |-> 0]
  /\ ydoc = [a \in ActorId |-> {}]
  /\ awStates = [a \in ActorId |-> {}]
  /\ awClock = [a \in ActorId |-> [c \in ClientIds |-> 0]]
  /\ conns = [a \in ActorId |-> <<>>]
  /\ producer = [a \in ActorId |-> "null"]
  /\ consumer = [a \in ActorId |-> "null"]
  /\ destroyed = [a \in ActorId |-> FALSE]
  /\ dClose = [a \in ActorId |-> 0]
  /\ cstate = [a \in ActorId |-> "none"]
  /\ net = [i \in Inst |-> TRUE]
  /\ clientOk = [i \in Inst |-> TRUE]
  /\ outages = 0
  /\ rProbe = [i \in Inst |-> 0]
  /\ rClose = [i \in Inst |-> 0]
  /\ sock = [p \in Peer |-> "idle"]
  /\ closeCode = [p \in Peer |-> 0]
  /\ attached = [p \in Peer |-> NoDoc]
  /\ gpc = [p \in Peer |-> "none"]
  /\ attempt = [p \in Peer |-> 0]
  /\ recv = [p \in Peer |-> {}]
  /\ introduced = [p \in Peer |-> {}]
  /\ malformed = "none"
  /\ ret = [p \in Peer |-> NoRet]
  /\ topic = <<>>
  /\ delivered = <<>>
  /\ subExists = {}
  /\ loop = [a \in ActorId |-> "none"]
  /\ missed = [p \in Peer |-> {}]


(* ---------------- lib0 decoding of a frame ---------------- *)
RECURSIVE ReadVarUint(_, _)
\* decoding.readVarUint: 7 bits per byte, the high bit continues; reading
\* past the end throws
ReadVarUint(m, pos) ==
  IF pos > Len(m) THEN [ok |-> FALSE, val |-> 0, pos |-> pos]
  ELSE IF m[pos] < 128 THEN [ok |-> TRUE, val |-> m[pos], pos |-> pos + 1]
  ELSE LET r == ReadVarUint(m, pos + 1)
       IN [ok |-> r.ok, val |-> (m[pos] - 128) + 128 * r.val, pos |-> r.pos]

\* decoding.readVarUint8Array: a length, then that many bytes
ReadVarUint8Array(m, pos) ==
  LET n == ReadVarUint(m, pos)
  IN IF ~n.ok \/ n.pos + n.val - 1 > Len(m)
     THEN [ok |-> FALSE, bytes |-> <<>>, pos |-> pos]
     ELSE [ok |-> TRUE, bytes |-> SubSeq(m, n.pos, n.pos + n.val - 1),
           pos |-> n.pos + n.val]

\* the bytes of one CRDT update, and whether Y.applyUpdate can decode them
IsUpdateBytes(b) == Len(b) = 1 /\ b[1] \in Updates
\* the bytes of an awareness update of one client: count, id, clock, state
IsAwarenessBytes(b) ==
  /\ Len(b) = 4 /\ b[1] = 1 /\ b[2] \in ClientIds
  /\ b[3] \in Clocks /\ b[4] \in {0, 1}
AwEntry(b) == [id |-> b[2], clock |-> b[3], present |-> (b[4] = 1)]
AwBytes(e) == <<1, e.id, e.clock, IF e.present THEN 1 ELSE 0>>

\* frames clients send (syncProtocol.writeUpdate, encodeAwarenessUpdate)
EncSyncUpdate(u) == <<messageSync, messageYjsUpdate, 1, u>>
EncSyncStep1 == <<messageSync, messageYjsSyncStep1, 1, 0>>
EncAwareness(e) == <<messageAwareness, 4>> \o AwBytes(e)

GoodFrames ==
  {EncSyncUpdate(u) : u \in Updates} \cup {EncSyncStep1}
  \cup {EncAwareness([id |-> c, clock |-> k, present |-> s]) :
          c \in ClientIds, k \in Clocks, s \in BOOLEAN}
\* empty, truncated kind, unknown kind, kind only, truncated and undecodable bodies
BadFrames ==
  { <<>>, <<255>>, <<2>>, <<messageSync>>, <<messageSync, messageYjsUpdate>>,
    <<messageSync, 9>>, <<messageSync, messageYjsUpdate, 3, 1>>,
    <<messageSync, messageYjsUpdate, 1, 0>>,
    <<messageAwareness>>, <<messageAwareness, 0>>,
    <<messageAwareness, 4, 1, 42>>, <<messageAwareness, 2, 1, 42>> }
Frames == GoodFrames \cup BadFrames

\* what onMessage makes of a frame: the branch it takes and the decoded body
Decode(m) ==
  IF Len(m) = 0 THEN [res |-> "empty"]
  ELSE LET t == ReadVarUint(m, 1) IN
    IF ~t.ok THEN [res |-> "badType"]
    ELSE IF t.val = messageSync THEN
      LET st == ReadVarUint(m, t.pos) IN
      IF ~st.ok THEN [res |-> "syncErr"]
      ELSE LET body == ReadVarUint8Array(m, st.pos) IN
        IF ~body.ok THEN [res |-> "syncErr"]
        ELSE IF st.val = messageYjsSyncStep1 THEN [res |-> "step1"]
        ELSE IF st.val \in {1, messageYjsUpdate} THEN
          IF IsUpdateBytes(body.bytes)
          THEN [res |-> "update", u |-> body.bytes[1]]
          ELSE [res |-> "updateErr"]
        ELSE [res |-> "syncErr"]
    ELSE IF t.val = messageAwareness THEN
      LET body == ReadVarUint8Array(m, t.pos) IN
      IF body.ok /\ IsAwarenessBytes(body.bytes)
      THEN [res |-> "awareness", e |-> AwEntry(body.bytes)]
      ELSE [res |-> "awErr"]
    ELSE [res |-> "unknown"]

(* ---------------- the actor's hooks, as state transformers ---------------- *)
\* the part of the state a handler can change
Cur == [recv |-> recv, conns |-> conns, awStates |-> awStates,
        awClock |-> awClock, ydoc |-> ydoc, producer |-> producer,
        consumer |-> consumer, dClose |-> dClose, topic |-> topic,
        delivered |-> delivered]

Pending == <<"pending", 0>>
NoSub == <<"nosub", 0>>

\* the topic of the actor's producer and consumer, and its subscription
TopicOf(a) == getFullTopicName(DocName(InstOf(a)))
SubscriptionOf(a) == <<TopicOf(a), SubscriptionName(DocName(InstOf(a)))>>

\* a publish whose rejection tears the actor down
PublishEscalates(st, a, data, origin) ==
  IF st.producer[a] = "open" /\ clientOk[InstOf(a)]
  THEN [st EXCEPT
          !.topic = Append(@, [name |-> getFullTopicName(DocName(InstOf(a))),
                               data |-> data, from |-> a, origin |-> origin,
                               subs |-> {}]),
          !.delivered = Append(@, <<"pending", 0>>)]
  ELSE [st EXCEPT !.producer[a] = "closed", !.consumer[a] = "closed",
                  !.dClose[a] = @ + 1]

\* producer.send(...).catch(log): the message reaches the topic when the
\* producer is open on a connected client, otherwise the rejection is logged;
\* subs records the consumers subscribed at that moment
Publish(st, a, data, origin) ==
  IF st.producer[a] = "open" /\ clientOk[InstOf(a)]
  THEN [st EXCEPT
          !.topic = Append(@, [name |-> TopicOf(a), data |-> data, from |-> a,
                               origin |-> origin,
                               subs |-> {b \in ActorId : /\ st.consumer[b] = "open"
                                                         /\ TopicOf(b) = TopicOf(a)}]),
          !.delivered = Append(@, IF SubscriptionOf(a) \in subExists
                                  THEN Pending ELSE NoSub)]
  ELSE st

CloseHandle(h) == IF h = "null" THEN "null" ELSE "closed"

\* YDoc.destroy() up to its await of the two closes (storage is null)
DestroyStart(st, a) ==
  [st EXCEPT !.producer[a] = CloseHandle(@),
             !.consumer[a] = CloseHandle(@),
             !.dClose[a] = @ + 1]

Restrict(f, S) == [x \in S |-> f[x]]

RECURSIVE Broadcast(_, _, _, _)
RECURSIVE OnCloseFx(_, _, _)
RECURSIVE AwarenessHandler(_, _, _, _)

\* send(doc, conn, message): a socket that is not open is closed instead
Send(st, a, q, item) ==
  IF sock[q] \in {"setup", "open"}
  THEN [st EXCEPT !.recv[q] = @ \cup {item}]
  ELSE OnCloseFx(st, q, a)

\* the forEach ended by the first peer whose socket refuses the frame
RECURSIVE BroadcastStopsAtDetach(_, _, _, _)
BroadcastStopsAtDetach(st, a, targets, item) ==
  IF targets = {} THEN st
  ELSE LET q == CHOOSE x \in targets : TRUE
       IN IF sock[q] \in {"setup", "open"}
          THEN BroadcastStopsAtDetach(Send(st, a, q, item), a, targets \ {q}, item)
          ELSE Send(st, a, q, item)

\* this.conns.forEach(conn => send(...)) over the given peers
Broadcast(st, a, targets, item) ==
  IF targets = {} THEN st
  ELSE LET q == CHOOSE x \in targets : TRUE
       IN Broadcast(Send(st, a, q, item), a, targets \ {q}, item)

\* the diff frame of the changed clients, from the awareness state
AwItem(st, a, c) ==
  <<"aw", c, st.awClock[a][c], IF c \in st.awStates[a] THEN 1 ELSE 0>>

\* YDoc.awarenessHandler: to every peer, and to the broker unless broker-origin
AwarenessHandler(st, a, c, origin) ==
  IF destroyed[a] THEN st
  ELSE LET item == AwItem(st, a, c)
           st1 == Broadcast(st, a, DOMAIN st.conns[a], item)
       IN IF origin # PULSAR_ORIGIN /\ st1.producer[a] # "null"
          THEN Publish(st1, a,
                 <<messageAwareness>> \o
                   AwBytes([id |-> c, clock |-> item[3], present |-> (item[4] = 1)]),
                 origin)
          ELSE st1

RECURSIVE RemoveAwarenessStates(_, _, _, _)
\* awarenessProtocol.removeAwarenessStates(awareness, ids, origin)
RemoveAwarenessStates(st, a, ids, origin) ==
  LET present == ids \cap st.awStates[a] IN
  IF present = {} THEN st
  ELSE LET c == CHOOSE x \in present : TRUE
           st1 == [st EXCEPT !.awStates[a] = @ \ {c}]
       IN RemoveAwarenessStates(AwarenessHandler(st1, a, c, "null"),
                                a, ids \ {c}, origin)

\* onClose without the test that the peer is still in the map
OnCloseFxUnguarded(st, q, a) ==
  LET st1 == [st EXCEPT !.conns[a] = Restrict(@, DOMAIN @ \ {q})]
      st2 == RemoveAwarenessStates(st1, a, {}, "null")
  IN IF DOMAIN st2.conns[a] = {} THEN DestroyStart(st2, a) ELSE st2

\* onClose(conn, doc)
OnCloseFx(st, q, a) ==
  IF q \notin DOMAIN st.conns[a] THEN st
  ELSE LET controlledIds == st.conns[a][q]
           st1 == [st EXCEPT !.conns[a] = Restrict(@, DOMAIN @ \ {q})]
           st2 == RemoveAwarenessStates(st1, a, controlledIds, "null")
       IN IF DOMAIN st2.conns[a] = {} THEN DestroyStart(st2, a) ELSE st2

\* updateHandler without the origin guard on the publish
UpdateHandlerRepublish(st, a, u, origin) ==
  IF destroyed[a] THEN st
  ELSE LET st1 == Broadcast(st, a, DOMAIN st.conns[a] \ {origin}, <<"sync", u, 0, 0>>)
       IN IF st1.producer[a] # "null"
          THEN Publish(st1, a, <<messageSync, u>>, origin)
          ELSE st1

\* YDoc.updateHandler: to every peer but the originator, and to the broker
\* unless the update is broker-origin
UpdateHandler(st, a, u, origin) ==
  IF destroyed[a] THEN st
  ELSE LET st1 == Broadcast(st, a, DOMAIN st.conns[a] \ {origin}, <<"sync", u, 0, 0>>)
       IN IF origin # PULSAR_ORIGIN /\ st1.producer[a] # "null"
          THEN Publish(st1, a, <<messageSync, u>>, origin)
          ELSE st1

\* Y.applyUpdate(doc, update, origin): an update already integrated changes
\* nothing and fires no event
ApplyUpdate(st, a, u, origin) ==
  IF u \in st.ydoc[a] THEN st
  ELSE UpdateHandler([st EXCEPT !.ydoc[a] = @ \cup {u}], a, u, origin)

\* awarenessProtocol.applyAwarenessUpdate for one client entry
ApplyAwarenessUpdate(st, a, e, origin) ==
  LET cur == st.awClock[a][e.id]
      has == e.id \in st.awStates[a]
  IN IF cur < e.clock \/ (cur = e.clock /\ ~e.present /\ has)
     THEN LET st1 == [st EXCEPT
                        !.awClock[a][e.id] = e.clock,
                        !.awStates[a] = IF e.present THEN @ \cup {e.id}
                                        ELSE @ \ {e.id}]
          IN IF e.present \/ has
             THEN AwarenessHandler(st1, a, e.id, origin)
             ELSE st1
     ELSE st

\* write a transformed state back
Commit(st) ==
  /\ recv' = st.recv /\ conns' = st.conns /\ awStates' = st.awStates
  /\ awClock' = st.awClock /\ ydoc' = st.ydoc /\ producer' = st.producer
  /\ consumer' = st.consumer /\ dClose' = st.dClose /\ topic' = st.topic
  /\ delivered' = st.delivered


(* ---------------- getYDoc and setupWSConnection ---------------- *)
\* client.close(): every producer and consumer opened on the client is closed
InvalidateHandles(h, i) ==
  [b \in ActorId |-> IF InstOf(b) = i /\ h[b] = "open" THEN "closed" ELSE h[b]]

\* a tear-down of the actor has begun or has finished
Dying(a) ==
  \/ dClose[a] > 0
  \/ destroyed[a]
  \/ \E q \in Peer : gpc[q] = "destroying" /\ attached[q] = a

\* registered, not destroyed, producer and consumer open
Running(st, a) ==
  /\ docs[InstOf(a)] = a
  /\ ~Dying(a)
  /\ st.producer[a] = "open"
  /\ st.consumer[a] = "open"

\* doc.awareness.getStates().size: the clients' states and the local state the
\* Awareness constructor sets for the doc's own id, which the destruction of
\* the doc removes
AwarenessSize(st, a) ==
  Cardinality(st.awStates[a]) + (IF destroyed[a] THEN 0 ELSE 1)

\* the state vector writeSyncStep1 encodes: which updates the doc holds
RECURSIVE StateVector(_)
StateVector(S) ==
  IF S = {} THEN 0
  ELSE LET u == CHOOSE x \in S : TRUE
       IN 2 ^ (u - 1) + StateVector(S \ {u})

\* onConnection with the awareness frame sent before sync step 1
OnConnectionAwarenessFirst(st, p, a) ==
  LET st1 == IF AwarenessSize(st, a) > 0
             THEN [st EXCEPT !.recv[p] =
                     @ \cup {<<"awAll", AwarenessSize(st, a), 1, 0>>}]
             ELSE st
      sent == IF AwarenessSize(st, a) > 0 THEN 1 ELSE 0
  IN [st1 EXCEPT !.recv[p] =
        @ \cup {<<"step1", StateVector(st.ydoc[a]), sent + 1, 0>>}]

\* onConnection(conn, doc), the socket of the peer being open: sync step 1 of
\* the doc's state, then the full awareness state if there is any. The third
\* field of a handshake frame is its position among the frames sent
OnConnection(st, p, a) ==
  LET st1 == [st EXCEPT !.recv[p] =
                @ \cup {<<"step1", StateVector(st.ydoc[a]), 1, 0>>}]
  IN IF AwarenessSize(st1, a) > 0
     THEN [st1 EXCEPT !.recv[p] =
             @ \cup {<<"awAll", AwarenessSize(st1, a), 2, 0>>}]
     ELSE st1

\* the attach of a peer whose socket went away during getYDoc, had the
\* handshake not tried to send
AttachWithoutSend(st, p, a) ==
  IF sock[p] = "deadSetup"
  THEN [st EXCEPT !.conns[a] = (p :> {}) @@ @]
  ELSE OnConnection([st EXCEPT !.conns[a] = (p :> {}) @@ @], p, a)

\* doc.conns.set(conn, new Set()) and onConnection(conn, doc). When the
\* socket went away while getYDoc was awaited, its 'close' event found no
\* listener, and the first send of the handshake finds the socket closed and
\* calls onClose; the second send then finds the peer gone from the map
Attach(st, p, a) ==
  IF sock[p] = "deadSetup"
  THEN LET st1 == Send([st EXCEPT !.conns[a] = (p :> {}) @@ @], a, p,
                       <<"step1", StateVector(st.ydoc[a]), 1, 0>>)
       IN IF AwarenessSize(st1, a) > 0
          THEN Send(st1, a, p, <<"awAll", AwarenessSize(st1, a), 2, 0>>)
          ELSE st1
  ELSE OnConnection([st EXCEPT !.conns[a] = (p :> {}) @@ @], p, a)

\* setupWSConnection up to the first suspension of getYDoc: an existing doc is
\* returned at once and the peer attached; otherwise a YDoc is constructed and
\* registered and the first attempt begins
Connect(p) ==
  LET i == Home(p) IN
  /\ sock[p] = "idle"
  /\ IF docs[i] # NoDoc
     THEN LET a == docs[i] IN
          /\ Commit(Attach(Cur, p, a))
          /\ sock' = [sock EXCEPT ![p] = "open"]
          /\ attached' = [attached EXCEPT ![p] = a]
          /\ gpc' = [gpc EXCEPT ![p] = "returned"]
          /\ ret' = [ret EXCEPT ![p] =
                       [how |-> "existing", ready |-> cstate[a] = "ready",
                        dying |-> Dying(a), running |-> Running(Cur, a)]]
          /\ UNCHANGED <<docs, nActors, cstate, attempt>>
     ELSE /\ nActors[i] < MaxActors
          /\ LET a == <<i, nActors[i] + 1>> IN
             /\ docs' = [docs EXCEPT ![i] = a]
             /\ nActors' = [nActors EXCEPT ![i] = @ + 1]
             /\ cstate' = [cstate EXCEPT ![a] = "creating"]
             /\ attached' = [attached EXCEPT ![p] = a]
          /\ sock' = [sock EXCEPT ![p] = "setup"]
          /\ gpc' = [gpc EXCEPT ![p] = "probe"]
          /\ attempt' = [attempt EXCEPT ![p] = 1]
          /\ UNCHANGED <<recv, conns, awStates, awClock, ydoc, producer,
                         consumer, dClose, topic, delivered, ret>>
  /\ UNCHANGED <<destroyed, net, clientOk, outages, rProbe, rClose, closeCode,
                 introduced, malformed, subExists, loop, missed, rs, srv, s3, ps>>

\* the catch block of an attempt: reconnect and back off, or, after the last
\* attempt, destroy the new doc
Catch(p, st) ==
  LET a == attached[p]
      i == Home(p)
  IN IF attempt[p] < MAX_RETRIES
     THEN /\ rProbe' = [rProbe EXCEPT ![i] = @ + 1]
          /\ gpc' = [gpc EXCEPT ![p] = "backoff"]
          /\ Commit(st)
     ELSE /\ rProbe' = rProbe
          /\ gpc' = [gpc EXCEPT ![p] = "destroying"]
          /\ Commit([st EXCEPT !.producer[a] = CloseHandle(@),
                               !.consumer[a] = CloseHandle(@)])

AfterProbe(a) == IF producer[a] = "null" THEN "producer" ELSE "subscribe"

\* lines 320-333: probe the client, replace it when the probe fails, probe again
GetYDocProbe(p) ==
  LET a == attached[p]
      i == Home(p)
  IN
  /\ gpc[p] = "probe"
  /\ IF clientOk[i]
     THEN /\ gpc' = [gpc EXCEPT ![p] = AfterProbe(a)]
          /\ UNCHANGED <<clientOk, rProbe, recv, conns, awStates, awClock, ydoc,
                         producer, consumer, dClose, topic, delivered>>
     ELSE LET st == [Cur EXCEPT !.producer = InvalidateHandles(@, i),
                                !.consumer = InvalidateHandles(@, i)]
          IN /\ clientOk' = [clientOk EXCEPT ![i] = net[i]]
             /\ IF net[i]
                THEN /\ gpc' = [gpc EXCEPT ![p] = AfterProbe(a)]
                     /\ rProbe' = rProbe
                     /\ Commit(st)
                ELSE Catch(p, st)
  /\ UNCHANGED <<docs, nActors, destroyed, cstate, net, outages, rClose, sock,
                 closeCode, attached, attempt, introduced, malformed, ret,
                 subExists, loop, missed, rs, srv, s3, ps>>

\* lines 337-376: createProducer
GetYDocProducer(p) ==
  LET a == attached[p]
      i == Home(p)
  IN
  /\ gpc[p] = "producer"
  /\ IF clientOk[i]
     THEN /\ gpc' = [gpc EXCEPT ![p] = "subscribe"]
          /\ rProbe' = rProbe
          /\ Commit([Cur EXCEPT !.producer[a] = "open"])
     ELSE Catch(p, Cur)
  /\ UNCHANGED <<docs, nActors, destroyed, cstate, net, clientOk, outages,
                 rClose, sock, closeCode, attached, attempt, introduced,
                 malformed, ret, subExists, loop, missed, rs, srv, s3, ps>>

\* lines 378-439 and 537-558: subscribe, start the consumer loop, return the
\* doc; setupWSConnection then attaches the peer and runs the handshake
GetYDocSubscribe(p) ==
  LET a == attached[p]
      i == Home(p)
  IN
  /\ gpc[p] = "subscribe"
  /\ IF clientOk[i]
     THEN LET st == [Cur EXCEPT !.consumer[a] = IF @ = "null" THEN "open" ELSE @] IN
          /\ gpc' = [gpc EXCEPT ![p] = "returned"]
          /\ rProbe' = rProbe
          /\ subExists' = subExists \cup {SubscriptionOf(a)}
          /\ loop' = [loop EXCEPT ![a] = "running"]
          /\ missed' = missed
          /\ cstate' = [cstate EXCEPT ![a] = "ready"]
          /\ sock' = [sock EXCEPT ![p] = IF @ = "deadSetup" THEN "closed" ELSE "open"]
          /\ ret' = [ret EXCEPT ![p] =
                       [how |-> "created", ready |-> TRUE,
                        dying |-> Dying(a), running |-> Running(st, a)]]
          /\ Commit(Attach(st, p, a))
     ELSE /\ Catch(p, Cur)
          /\ UNCHANGED <<subExists, loop, missed, cstate, sock, ret>>
  /\ UNCHANGED <<docs, nActors, destroyed, net, clientOk, outages, rClose,
                 closeCode, attached, attempt, introduced, malformed, rs, srv, s3, ps>>

\* line 444: the 1 s back-off is over, the next attempt begins
GetYDocRetry(p) ==
  /\ gpc[p] = "backoff"
  /\ gpc' = [gpc EXCEPT ![p] = "probe"]
  /\ attempt' = [attempt EXCEPT ![p] = @ + 1]
  /\ UNCHANGED <<docs, nActors, ydoc, awStates, awClock, conns, producer,
                 consumer, destroyed, dClose, cstate, net, clientOk, outages,
                 rProbe, rClose, sock, closeCode, attached, recv, introduced,
                 malformed, ret, topic, delivered, subExists, loop, missed, rs, srv, s3, ps>>

\* the throw of getYDoc with the name left in the registry
GetYDocThrowKeepsEntry(p) ==
  LET a == attached[p] IN
  /\ gpc[p] = "destroying"
  /\ gpc' = [gpc EXCEPT ![p] = "threw"]
  /\ destroyed' = [destroyed EXCEPT ![a] = TRUE]
  /\ cstate' = [cstate EXCEPT ![a] = "failed"]
  /\ sock' = [sock EXCEPT ![p] = "closed"]
  /\ closeCode' = [closeCode EXCEPT ![p] = InternalError]
  /\ UNCHANGED <<docs, nActors, ydoc, awStates, awClock, conns, producer,
                 consumer, dClose, net, clientOk, outages, rProbe, rClose,
                 attached, attempt, recv, introduced, malformed, ret, topic,
                 delivered, subExists, loop, missed, rs, srv, s3, ps>>

\* lines 446-447 and 559-562: newDoc.destroy() has completed, getYDoc throws,
\* setupWSConnection closes the socket with 1011
GetYDocThrow(p) ==
  LET a == attached[p] IN
  /\ gpc[p] = "destroying"
  /\ gpc' = [gpc EXCEPT ![p] = "threw"]
  /\ destroyed' = [destroyed EXCEPT ![a] = TRUE]
  /\ docs' = [docs EXCEPT ![InstOf(a)] = NoDoc]
  /\ cstate' = [cstate EXCEPT ![a] = "failed"]
  /\ sock' = [sock EXCEPT ![p] = "closed"]
  /\ closeCode' = [closeCode EXCEPT ![p] =
                     IF sock[p] = "deadSetup" THEN @ ELSE InternalError]
  /\ UNCHANGED <<nActors, ydoc, awStates, awClock, conns, producer, consumer,
                 dClose, net, clientOk, outages, rProbe, rClose, attached,
                 attempt, recv, introduced, malformed, ret, topic, delivered,
                 subExists, loop, missed, rs, srv, s3, ps>>

(* ---------------- supervisor reconnect and tear-down ---------------- *)
\* reconnectPulsarClient: the health probe has answered; a positive probe ends
\* the reconnect, a negative one starts closing the client
ReconnectProbe(i) ==
  /\ rProbe[i] > 0
  /\ rProbe' = [rProbe EXCEPT ![i] = @ - 1]
  /\ IF clientOk[i]
     THEN UNCHANGED <<rClose, producer, consumer>>
     ELSE /\ rClose' = [rClose EXCEPT ![i] = @ + 1]
          /\ producer' = InvalidateHandles(producer, i)
          /\ consumer' = InvalidateHandles(consumer, i)
  /\ UNCHANGED <<docs, nActors, ydoc, awStates, awClock, conns, destroyed,
                 dClose, cstate, net, clientOk, outages, sock, closeCode,
                 attached, gpc, attempt, recv, introduced, malformed, ret,
                 topic, delivered, subExists, loop, missed, rs, srv, s3, ps>>

\* the rebuild without the tear-down of the registered docs
ReconnectRebuildKeepsDocs(i) ==
  /\ rClose[i] > 0
  /\ rClose' = [rClose EXCEPT ![i] = @ - 1]
  /\ clientOk' = [clientOk EXCEPT ![i] = net[i]]
  /\ UNCHANGED <<docs, nActors, ydoc, awStates, awClock, conns, producer,
                 consumer, destroyed, dClose, cstate, net, outages, rProbe,
                 sock, closeCode, attached, gpc, attempt, recv, introduced,
                 malformed, ret, topic, delivered, subExists, loop, missed, rs, srv, s3, ps>>

\* reconnectPulsarClient after client.close(): a new client, destroy() on every
\* registered doc, docs.clear()
ReconnectRebuild(i) ==
  /\ rClose[i] > 0
  /\ rClose' = [rClose EXCEPT ![i] = @ - 1]
  /\ clientOk' = [clientOk EXCEPT ![i] = net[i]]
  /\ Commit(IF docs[i] # NoDoc THEN DestroyStart(Cur, docs[i]) ELSE Cur)
  /\ docs' = [docs EXCEPT ![i] = NoDoc]
  /\ UNCHANGED <<nActors, destroyed, cstate, net, outages, rProbe, sock,
                 closeCode, attached, gpc, attempt, introduced, malformed, ret,
                 subExists, loop, missed, rs, srv, s3, ps>>

\* YDoc.destroy() after the closes: super.destroy() and docs.delete(this.name)
DestroyFinish(a) ==
  /\ dClose[a] > 0
  /\ dClose' = [dClose EXCEPT ![a] = @ - 1]
  /\ destroyed' = [destroyed EXCEPT ![a] = TRUE]
  /\ docs' = [docs EXCEPT ![InstOf(a)] = NoDoc]
  /\ UNCHANGED <<nActors, ydoc, awStates, awClock, conns, producer, consumer,
                 cstate, net, clientOk, outages, rProbe, rClose, sock,
                 closeCode, attached, gpc, attempt, recv, introduced, malformed,
                 ret, topic, delivered, subExists, loop, missed, rs, srv, s3, ps>>


(* ---------------- peer session ---------------- *)
\* the client's socket goes away; the 'close' event has not been handled yet
SocketDrop(p) ==
  /\ sock[p] = "open"
  /\ sock' = [sock EXCEPT ![p] = "dead"]
  /\ UNCHANGED <<docs, nActors, ydoc, awStates, awClock, conns, producer,
                 consumer, destroyed, dClose, cstate, net, clientOk, outages,
                 rProbe, rClose, closeCode, attached, gpc, attempt, recv,
                 introduced, malformed, ret, topic, delivered, subExists, loop, missed, rs, srv, s3, ps>>

\* the client's socket goes away while setupWSConnection awaits getYDoc: no
\* handler is registered yet (line 536 comes before 540-542)
SocketDropEarly(p) ==
  /\ sock[p] = "setup"
  /\ sock' = [sock EXCEPT ![p] = "deadSetup"]
  /\ UNCHANGED <<docs, nActors, ydoc, awStates, awClock, conns, producer,
                 consumer, destroyed, dClose, cstate, net, clientOk, outages,
                 rProbe, rClose, closeCode, attached, gpc, attempt, recv,
                 introduced, malformed, ret, topic, delivered, subExists, loop, missed,
                 rs, srv, s3, ps>>

\* a frame of the client arrives while setupWSConnection awaits getYDoc: the
\* socket emits 'message' before line 540 has registered the listener, and
\* the frame is gone
FrameBeforeListener(p, m) ==
  /\ sock[p] = "setup"
  /\ missed[p] = {}
  /\ missed' = [missed EXCEPT ![p] = {m}]
  /\ UNCHANGED <<docs, nActors, ydoc, awStates, awClock, conns, producer,
                 consumer, destroyed, dClose, cstate, net, clientOk, outages,
                 rProbe, rClose, sock, closeCode, attached, gpc, attempt, recv,
                 introduced, malformed, ret, topic, delivered, subExists, loop,
                 rs, srv, s3, ps>>

\* conn.on('close', () => onClose(conn, doc))
CloseEvent(p) ==
  /\ sock[p] \in {"open", "dead"}
  /\ sock' = [sock EXCEPT ![p] = "closed"]
  /\ Commit(OnCloseFx(Cur, p, attached[p]))
  /\ UNCHANGED <<docs, nActors, destroyed, cstate, net, clientOk, outages,
                 rProbe, rClose, closeCode, attached, gpc, attempt, introduced,
                 malformed, ret, subExists, loop, missed, rs, srv, s3, ps>>

\* conn.on('error', ...), lines 1430-1433: the socket is closing when ws
\* emits the event, and its 'close' event follows
ErrorEvent(p) ==
  /\ sock[p] \in {"open", "dead"}
  /\ sock' = [sock EXCEPT ![p] = "dead"]
  /\ Commit(OnCloseFx(Cur, p, attached[p]))
  /\ UNCHANGED <<docs, nActors, destroyed, cstate, net, clientOk, outages,
                 rProbe, rClose, closeCode, attached, gpc, attempt, introduced,
                 malformed, ret, subExists, loop, missed, rs, srv, s3, ps>>

\* the callback of conn.send reports a frame that was accepted while the
\* socket was open and could not be written, lines 291-293
SendFailed(p) ==
  /\ sock[p] = "dead"
  /\ recv[p] # {}
  /\ Commit(OnCloseFx(Cur, p, attached[p]))
  /\ UNCHANGED <<docs, nActors, destroyed, cstate, net, clientOk, outages,
                 rProbe, rClose, sock, closeCode, attached, gpc, attempt,
                 introduced, malformed, ret, subExists, loop, missed, rs, srv, s3, ps>>

DropResults == {"empty", "badType", "unknown", "syncErr", "updateErr", "awErr"}

\* the awareness ids a peer introduced, after its frame e was handled
Introduce(p, a, e) ==
  LET cur == awClock[a][e.id]
      applies == cur < e.clock \/ (cur = e.clock /\ ~e.present /\ e.id \in awStates[a])
  IN IF ~applies THEN introduced[p]
     ELSE IF e.present THEN introduced[p] \cup {e.id}
     ELSE introduced[p] \ {e.id}

\* onMessage with the connection closed on a frame it cannot handle
OnMessageFxClosing(st, p, a, d, swallow) ==
  IF d.res \in DropResults THEN OnCloseFx(st, p, a)
  ELSE IF d.res = "step1" THEN Send(st, a, p, <<"step2", 0, 0, 0>>)
  ELSE IF d.res = "update" THEN Send(ApplyUpdate(st, a, d.u, p), a, p, <<"step2", 0, 0, 0>>)
  ELSE ApplyAwarenessUpdate(st, a, d.e, p)

\* what onMessage does to the actor for a decoded frame d from peer p. An
\* update body Y.applyUpdate cannot decode either throws out of
\* readSyncMessage (the frame is ignored) or is logged inside it (swallow),
\* and then the empty step-2 reply still goes to the sender
OnMessageFx(st, p, a, d, swallow) ==
  IF d.res = "updateErr" /\ swallow THEN Send(st, a, p, <<"step2", 0, 0, 0>>)
  ELSE IF d.res \in DropResults THEN st
  ELSE IF d.res = "step1" THEN Send(st, a, p, <<"step2", 0, 0, 0>>)
  ELSE IF d.res = "update" THEN Send(ApplyUpdate(st, a, d.u, p), a, p, <<"step2", 0, 0, 0>>)
  ELSE ApplyAwarenessUpdate(st, a, d.e, p)

\* conn.on('message', m => onMessage(conn, doc, m)), lines 454-515
OnMessage(p, m) ==
  LET a == attached[p]
      d == Decode(m)
  IN
  /\ sock[p] = "open"
  /\ Len(topic) < MaxTopic
  /\ \E swallow \in BOOLEAN : Commit(OnMessageFx(Cur, p, a, d, swallow))
  /\ malformed' = IF malformed = "none" /\ d.res \in DropResults THEN p
                  ELSE malformed
  /\ introduced' = [introduced EXCEPT ![p] =
                      IF d.res = "awareness" THEN Introduce(p, a, d.e) ELSE @]
  /\ UNCHANGED <<docs, nActors, destroyed, cstate, net, clientOk, outages,
                 rProbe, rClose, sock, closeCode, attached, gpc, attempt, ret,
                 subExists, loop, missed, rs, srv, s3, ps>>

(* ---------------- broker ingress ---------------- *)
\* the body of the loop with every kind but AWARENESS applied as an update
IngressFxAnyKind(st, a, data) ==
  IF Len(data) = 0 \/ Len(Tail(data)) = 0 THEN st
  ELSE IF data[1] = messageAwareness
       THEN IF IsAwarenessBytes(Tail(data))
            THEN ApplyAwarenessUpdate(st, a, AwEntry(Tail(data)), PULSAR_ORIGIN)
            ELSE st
       ELSE IF IsUpdateBytes(Tail(data))
            THEN ApplyUpdate(st, a, Tail(data)[1], PULSAR_ORIGIN)
            ELSE st

\* the body of the consumer loop for one received message, lines 393-427
IngressFx(st, a, data) ==
  IF Len(data) = 0 \/ Len(Tail(data)) = 0 THEN st
  ELSE LET messageType == data[1]
           update == Tail(data)
       IN IF messageType = messageSync
          THEN IF IsUpdateBytes(update)
               THEN ApplyUpdate(st, a, update[1], PULSAR_ORIGIN)
               ELSE st
          ELSE IF messageType = messageAwareness
          THEN IF IsAwarenessBytes(update)
               THEN ApplyAwarenessUpdate(st, a, AwEntry(update), PULSAR_ORIGIN)
               ELSE st
          ELSE st

\* the catch block of the loop that leaves it whether or not the consumer is
\* still connected
LoopAfterError == "exited"

\* one round of the consumer loop in which consumer.receive() or the
\* acknowledgement rejects while the consumer is connected, lines 428-435
ReceiveError(a) ==
  /\ loop[a] = "running"
  /\ consumer[a] = "open"
  /\ clientOk[InstOf(a)]
  /\ loop' = [loop EXCEPT ![a] = LoopAfterError]
  /\ UNCHANGED <<docs, nActors, ydoc, awStates, awClock, conns, producer,
                 consumer, destroyed, dClose, cstate, net, clientOk, outages,
                 rProbe, rClose, sock, closeCode, attached, gpc, attempt, recv,
                 introduced, malformed, ret, topic, delivered, subExists,
                 missed, rs, srv, s3, ps>>

\* payloads the loop cannot use: empty, the kind byte alone, an unknown kind
BadPayloads == {<<>>, <<messageSync>>, <<messageAwareness>>, <<7, 1>>}

\* a producer other than an actor's publishes to a document's topic (for one,
\* the probe of checkPulsarConnection, lines 96-109, whose payload begins
\* with the byte of 'h')
ForeignPublish(d, data) ==
  /\ Len(topic) < MaxTopic
  /\ topic' = Append(topic, [name |-> getFullTopicName(d), data |-> data,
                             from |-> NoDoc, origin |-> "null",
                             subs |-> {b \in ActorId :
                                         /\ consumer[b] = "open"
                                         /\ TopicOf(b) = getFullTopicName(d)}])
  /\ delivered' = Append(delivered,
                         IF <<getFullTopicName(d), SubscriptionName(d)>> \in subExists
                         THEN Pending ELSE NoSub)
  /\ UNCHANGED <<docs, nActors, ydoc, awStates, awClock, conns, producer,
                 consumer, destroyed, dClose, cstate, net, clientOk, outages,
                 rProbe, rClose, sock, closeCode, attached, gpc, attempt, recv,
                 introduced, malformed, ret, subExists, loop, missed, rs, srv, s3, ps>>

\* one round of the consumer loop: consumer.receive() hands message k of the
\* consumer's topic and shared subscription to this consumer, which applies
\* and acknowledges it
ConsumerReceive(a, k) ==
  /\ loop[a] = "running"
  /\ consumer[a] = "open"
  /\ clientOk[InstOf(a)]
  /\ k \in 1..Len(topic)
  /\ topic[k].name = TopicOf(a)
  /\ delivered[k] = Pending
  /\ Commit(LET st == IngressFx(Cur, a, topic[k].data)
            IN [st EXCEPT !.delivered[k] = a])
  /\ UNCHANGED <<docs, nActors, destroyed, cstate, net, clientOk, outages,
                 rProbe, rClose, sock, closeCode, attached, gpc, attempt,
                 introduced, malformed, ret, subExists, loop, missed, rs, srv, s3, ps>>

(* ---------------- environment ---------------- *)
\* the broker becomes unreachable from an instance
Disconnect(i) ==
  /\ net[i]
  /\ outages < MaxOutages
  /\ outages' = outages + 1
  /\ net' = [net EXCEPT ![i] = FALSE]
  /\ clientOk' = [clientOk EXCEPT ![i] = FALSE]
  /\ UNCHANGED <<docs, nActors, ydoc, awStates, awClock, conns, producer,
                 consumer, destroyed, dClose, cstate, rProbe, rClose, sock,
                 closeCode, attached, gpc, attempt, recv, introduced, malformed,
                 ret, topic, delivered, subExists, loop, missed, rs, srv, s3, ps>>

\* the broker becomes reachable again; a client is connected once rebuilt
NetUp(i) ==
  /\ ~net[i]
  /\ net' = [net EXCEPT ![i] = TRUE]
  /\ UNCHANGED <<docs, nActors, ydoc, awStates, awClock, conns, producer,
                 consumer, destroyed, dClose, cstate, clientOk, outages, rProbe,
                 rClose, sock, closeCode, attached, gpc, attempt, recv,
                 introduced, malformed, ret, topic, delivered, subExists, loop, missed, rs, srv, s3, ps>>

RestoreIdle == [pc |-> "off"]

ServerOff == [pc |-> "off"]

StoreOff == [pc |-> "off"]

PersistOff == [pc |-> "off"]

Init ==
  /\ RelayInit /\ rs = RestoreIdle /\ srv = ServerOff /\ s3 = StoreOff
  /\ ps = PersistOff

\* ---- Spec: one instance, two clients, every frame, the broker reachable ----
RelayPeers == {"p1", "p2"}
RelayInst == {"X"}

Next ==
  \/ \E p \in RelayPeers : Connect(p)
  \/ \E p \in RelayPeers : GetYDocProbe(p)
  \/ \E p \in RelayPeers : GetYDocProducer(p)
  \/ \E p \in RelayPeers : GetYDocSubscribe(p)
  \/ \E a \in ActorId : DestroyFinish(a)
  \/ \E p \in RelayPeers : SocketDrop(p)
  \/ \E p \in RelayPeers : CloseEvent(p)
  \/ \E p \in RelayPeers, m \in Frames : OnMessage(p, m)
  \/ \E a \in ActorId, k \in 1..MaxTopic : ConsumerReceive(a, k)

Spec == Init /\ [][Next]_vars

\* ---- SpecRetry: one instance, two clients, broker outages, SYNC frames ----
RetryFrames == {EncSyncUpdate(u) : u \in Updates}

NextRetry ==
  \/ \E p \in RelayPeers : Connect(p)
  \/ \E p \in RelayPeers : GetYDocProbe(p)
  \/ \E p \in RelayPeers : GetYDocProducer(p)
  \/ \E p \in RelayPeers : GetYDocSubscribe(p)
  \/ \E p \in RelayPeers : GetYDocRetry(p)
  \/ \E p \in RelayPeers : GetYDocThrow(p)
  \/ \E i \in RelayInst : ReconnectProbe(i)
  \/ \E i \in RelayInst : ReconnectRebuild(i)
  \/ \E a \in ActorId : DestroyFinish(a)
  \/ \E p \in RelayPeers : SocketDrop(p)
  \/ \E p \in RelayPeers : CloseEvent(p)
  \/ \E p \in RelayPeers, m \in RetryFrames : OnMessage(p, m)
  \/ \E a \in ActorId, k \in 1..MaxTopic : ConsumerReceive(a, k)
  \/ \E i \in RelayInst : Disconnect(i)
  \/ \E i \in RelayInst : NetUp(i)

SpecRetry == Init /\ [][NextRetry]_vars

\* ---- SpecCluster: two instances, one client each, the broker reachable ----
ClusterPeers == {"p1", "p3"}

NextCluster ==
  \/ \E p \in ClusterPeers : Connect(p)
  \/ \E p \in ClusterPeers : GetYDocProbe(p)
  \/ \E p \in ClusterPeers : GetYDocProducer(p)
  \/ \E p \in ClusterPeers : GetYDocSubscribe(p)
  \/ \E a \in ActorId : DestroyFinish(a)
  \/ \E p \in ClusterPeers : SocketDrop(p)
  \/ \E p \in ClusterPeers : CloseEvent(p)
  \/ \E p \in ClusterPeers, m \in Frames : OnMessage(p, m)
  \/ \E a \in ActorId, k \in 1..MaxTopic : ConsumerReceive(a, k)

SpecCluster == Init /\ [][NextCluster]_vars

\* ---- SpecDocs: one instance, two documents with one client each ----
DocsPeers == {"p1", "p4"}

NextDocs ==
  \/ \E p \in DocsPeers : Connect(p)
  \/ \E p \in DocsPeers : GetYDocProbe(p)
  \/ \E p \in DocsPeers : GetYDocProducer(p)
  \/ \E p \in DocsPeers : GetYDocSubscribe(p)
  \/ \E a \in ActorId : DestroyFinish(a)
  \/ \E p \in DocsPeers : SocketDrop(p)
  \/ \E p \in DocsPeers : CloseEvent(p)
  \/ \E p \in DocsPeers, m \in Frames : OnMessage(p, m)
  \/ \E a \in ActorId, k \in 1..MaxTopic : ConsumerReceive(a, k)

SpecDocs == Init /\ [][NextDocs]_vars

\* ---- SpecDetach: Spec with the error event and the failed send ----
NextDetach ==
  \/ \E p \in RelayPeers : Connect(p)
  \/ \E p \in RelayPeers : GetYDocProbe(p)
  \/ \E p \in RelayPeers : GetYDocProducer(p)
  \/ \E p \in RelayPeers : GetYDocSubscribe(p)
  \/ \E a \in ActorId : DestroyFinish(a)
  \/ \E p \in RelayPeers : SocketDrop(p)
  \/ \E p \in RelayPeers : CloseEvent(p)
  \/ \E p \in RelayPeers : ErrorEvent(p)
  \/ \E p \in RelayPeers : SendFailed(p)
  \/ \E p \in RelayPeers, m \in Frames : OnMessage(p, m)
  \/ \E a \in ActorId, k \in 1..MaxTopic : ConsumerReceive(a, k)

SpecDetach == Init /\ [][NextDetach]_vars

\* ---- SpecIngress: one instance, one document, SYNC frames, foreign ----
\* ---- messages on the topic and receive errors                      ----
NextIngress ==
  \/ \E p \in RelayPeers : Connect(p)
  \/ \E p \in RelayPeers : GetYDocProbe(p)
  \/ \E p \in RelayPeers : GetYDocProducer(p)
  \/ \E p \in RelayPeers : GetYDocSubscribe(p)
  \/ \E a \in ActorId : DestroyFinish(a)
  \/ \E p \in RelayPeers : SocketDrop(p)
  \/ \E p \in RelayPeers : CloseEvent(p)
  \/ \E p \in RelayPeers, m \in RetryFrames : OnMessage(p, m)
  \/ \E data \in BadPayloads : ForeignPublish("d1", data)
  \/ \E a \in ActorId : ReceiveError(a)
  \/ \E a \in ActorId, k \in 1..MaxTopic : ConsumerReceive(a, k)

SpecIngress == Init /\ [][NextIngress]_vars

\* ---- SpecBroadcast: one instance, three clients of one document, SYNC ----
BroadcastPeers == {"p1", "p2", "p5"}

NextBroadcast ==
  \/ \E p \in BroadcastPeers : Connect(p)
  \/ \E p \in BroadcastPeers : GetYDocProbe(p)
  \/ \E p \in BroadcastPeers : GetYDocProducer(p)
  \/ \E p \in BroadcastPeers : GetYDocSubscribe(p)
  \/ \E a \in ActorId : DestroyFinish(a)
  \/ \E p \in BroadcastPeers : SocketDrop(p)
  \/ \E p \in BroadcastPeers : CloseEvent(p)
  \/ \E p \in BroadcastPeers, m \in RetryFrames : OnMessage(p, m)
  \/ \E a \in ActorId, k \in 1..MaxTopic : ConsumerReceive(a, k)

SpecBroadcast == Init /\ [][NextBroadcast]_vars

\* ---- SpecHandshake: Spec with sockets that go away during getYDoc ----
NextHandshake ==
  \/ \E p \in RelayPeers : Connect(p)
  \/ \E p \in RelayPeers : GetYDocProbe(p)
  \/ \E p \in RelayPeers : GetYDocProducer(p)
  \/ \E p \in RelayPeers : GetYDocSubscribe(p)
  \/ \E a \in ActorId : DestroyFinish(a)
  \/ \E p \in RelayPeers : SocketDropEarly(p)
  \/ \E p \in RelayPeers : SocketDrop(p)
  \/ \E p \in RelayPeers : CloseEvent(p)
  \/ \E p \in RelayPeers, m \in Frames : OnMessage(p, m)
  \/ \E a \in ActorId, k \in 1..MaxTopic : ConsumerReceive(a, k)

SpecHandshake == Init /\ [][NextHandshake]_vars

\* ---- SpecEarlyFrames: one instance, two clients that may send a SYNC ----
\* ---- frame as soon as their socket is open                          ----
NextEarlyFrames ==
  \/ \E p \in RelayPeers : Connect(p)
  \/ \E p \in RelayPeers : GetYDocProbe(p)
  \/ \E p \in RelayPeers : GetYDocProducer(p)
  \/ \E p \in RelayPeers : GetYDocSubscribe(p)
  \/ \E a \in ActorId : DestroyFinish(a)
  \/ \E p \in RelayPeers, m \in RetryFrames : FrameBeforeListener(p, m)
  \/ \E p \in RelayPeers : SocketDrop(p)
  \/ \E p \in RelayPeers : CloseEvent(p)
  \/ \E p \in RelayPeers, m \in RetryFrames : OnMessage(p, m)
  \/ \E a \in ActorId, k \in 1..MaxTopic : ConsumerReceive(a, k)

SpecEarlyFrames == Init /\ [][NextEarlyFrames]_vars


(***************************************************************************)
(* PulsarStorage.getDoc: snapshot + replay restore (pulsar-storage.ts)     *)
(***************************************************************************)
\* messages on the document's topic in the restore model
MaxLog == 4
\* SNAPSHOT_INTERVAL: SYNC messages folded by one restore before it snapshots
snapshotInterval == 2
\* consecutive read time-outs that end the replay (production value)
MAX_TIMEOUTS == 3

\* MessageId.serialize(): the id, two base-8 digits, high digit first
Serialize(k) == <<k \div 8, k % 8>>
\* Buffer.toString('base64'): one character code per digit
ToBase64(bytes) == [j \in 1..Len(bytes) |-> 65 + bytes[j]]
IsBase64Char(c) == c >= 65 /\ c < 65 + 64
\* Buffer.from(s, 'base64'): characters outside the alphabet are skipped
FromBase64(str) ==
  LET IsChar(c) == IsBase64Char(c)
      t == SelectSeq(str, IsChar)
  IN [j \in 1..Len(t) |-> t[j] - 65]
\* MessageId.deserialize(): throws unless the bytes are a serialized id
CanDeserialize(bytes) ==
  /\ Len(bytes) = 2
  /\ bytes[1] < 8 /\ bytes[2] < 8
  /\ 8 * bytes[1] + bytes[2] >= 1
Deserialize(bytes) == 8 * bytes[1] + bytes[2]

\* the snapshot object in the store: json is what JSON.parse makes of its
\* content ("record", "garbage", or "empty" for zero bytes)
Absent ==
  [present |-> FALSE, json |-> "empty", state |-> {}, lastMessageId |-> <<>>,
   messageCount |-> 0]
\* clearSnapshot: the object overwritten with empty content
Cleared == [Absent EXCEPT !.present = TRUE]
\* objects saveSnapshot did not write: text that is no JSON, a record without
\* a checkpoint, and a record whose checkpoint is the serialized id without
\* the base64 encoding (the "old format" of line 216) over a state of its own
NotJson == [Absent EXCEPT !.present = TRUE, !.json = "garbage"]
NoCheckpoint == [Absent EXCEPT !.present = TRUE, !.json = "record"]
OldFormat ==
  [present |-> TRUE, json |-> "record", state |-> {0},
   lastMessageId |-> Serialize(1), messageCount |-> 1]
Seeds == {Absent, NotJson, NoCheckpoint, OldFormat}

\* saveSnapshot writing the serialized id without the base64 encoding
MakeSnapshotRaw(state, lastMessageId, count) ==
  [present |-> TRUE, json |-> "record", state |-> state,
   lastMessageId |-> Serialize(lastMessageId),
   messageCount |-> count]

\* saveSnapshot: the DocumentSnapshot record as stored (timestamp left out:
\* nothing reads it)
MakeSnapshot(state, lastMessageId, count) ==
  [present |-> TRUE, json |-> "record", state |-> state,
   lastMessageId |-> ToBase64(Serialize(lastMessageId)),
   messageCount |-> count]

\* loadSnapshot, lines 78-84: the content parses and the record has its fields
ValidSnapshot(sn) ==
  sn.present /\ sn.json = "record" /\ Len(sn.lastMessageId) > 0

\* what loadSnapshot met: nothing ("absent", or the emptied object), a read
\* that failed, content that is no valid record, a record whose checkpoint
\* does not deserialize, or a usable snapshot
Found(sn, readOk) ==
  IF ~readOk THEN "unreadable"
  ELSE IF ~sn.present \/ sn = Cleared THEN "absent"
  ELSE IF ~ValidSnapshot(sn) THEN "undecodable"
  ELSE IF ~CanDeserialize(FromBase64(sn.lastMessageId)) THEN "badCheckpoint"
  ELSE "valid"

\* found, clears, failed, written and from are kept for the properties: what
\* the current restore met, its clearSnapshot calls, whether getDoc returned
\* null from its catch block, the snapshots saveSnapshot stored so far, and
\* the position the reader was opened at
RestoreStartState ==
  [pc |-> "idle", log |-> <<>>, snap |-> Absent, ydoc |-> {}, pos |-> 0,
   atStart |-> 0, baseMessageCount |-> 0, messageCount |-> 0,
   lastMessageId |-> 0, consecutiveTimeouts |-> 0, raced |-> FALSE,
   result |-> {}, restores |-> 0, found |-> "absent", clears |-> 0,
   failed |-> FALSE, written |-> <<>>, from |-> 0, tail |-> 0,
   subAt |-> 0, cursor |-> 0]

\* restores one run performs
MaxRestores == 3

\* a SYNC message carries one update, named by its position on the topic; an
\* AWARENESS message carries a diff
LogKinds == {messageSync, messageAwareness}

\* an instance publishes to the document's topic
LogPublish(kind) ==
  /\ rs.pc # "off"
  /\ Len(rs.log) < MaxLog
  /\ rs' = [rs EXCEPT !.log = Append(@, [kind |-> kind, u |-> Len(rs.log) + 1])]
  /\ UNCHANGED <<relayVars, srv, s3, ps>>

\* getDoc lines 198-239: load the snapshot (readOk: the object store answered
\* the read), apply it, parse its checkpoint, open the reader there or at the
\* earliest message. A checkpoint that does not deserialize: the snapshot's
\* state is already applied, clearSnapshot runs (cleared: the store accepted
\* the write), and Y.applyUpdate of the empty array at line 222 throws (a read
\* past the end), so getDoc returns null from its catch block
RestoreBegin(readOk, cleared) ==
  /\ rs.pc = "idle"
  /\ rs.restores < MaxRestores
  /\ LET sn == rs.snap
         found == Found(sn, readOk)
         ok == found \in {"valid", "badCheckpoint"}
         idOk == found = "valid"
     IN rs' = [rs EXCEPT
          !.pc = IF found = "badCheckpoint" THEN "done" ELSE "reading",
          !.found = found,
          !.failed = (found = "badCheckpoint"),
          !.clears = IF found = "badCheckpoint" THEN 1 ELSE 0,
          !.restores = @ + 1,
          !.atStart = Len(rs.log),
          !.ydoc = IF ok THEN sn.state ELSE {},
          !.baseMessageCount = IF idOk THEN sn.messageCount ELSE 0,
          !.pos = IF idOk THEN Deserialize(FromBase64(sn.lastMessageId)) ELSE 0,
          !.from = IF idOk THEN Deserialize(FromBase64(sn.lastMessageId)) ELSE 0,
          !.snap = IF found = "badCheckpoint" /\ cleared THEN Cleared ELSE sn,
          !.messageCount = 0, !.lastMessageId = 0,
          !.consecutiveTimeouts = 0, !.raced = FALSE, !.result = {},
          !.tail = Len(rs.log)]
  /\ UNCHANGED <<relayVars, srv, s3, ps>>

\* the loop condition without the bound on the messages folded
LoopRunsUnbounded ==
  /\ rs.pc = "reading"
  /\ rs.consecutiveTimeouts < MAX_TIMEOUTS

LoopRuns ==
  /\ rs.pc = "reading"
  /\ rs.consecutiveTimeouts < MAX_TIMEOUTS
  /\ rs.messageCount < snapshotInterval

\* lines 248-268: readNext returned the next message after the reader position
ReplayRead ==
  /\ LoopRuns
  /\ rs.pos < Len(rs.log)
  /\ LET k == rs.pos + 1
         msg == rs.log[k]
         fold == msg.kind = messageSync
     IN rs' = [rs EXCEPT
          !.pos = k,
          !.consecutiveTimeouts = 0,
          !.lastMessageId = k,
          !.ydoc = IF fold THEN @ \cup {msg.u} ELSE @,
          !.messageCount = IF fold THEN @ + 1 ELSE @]
  /\ UNCHANGED <<relayVars, srv, s3, ps>>

\* lines 270-273: readNext timed out (or failed)
ReplayTimeout ==
  /\ LoopRuns
  /\ rs' = [rs EXCEPT !.consecutiveTimeouts = @ + 1]
  /\ UNCHANGED <<relayVars, srv, s3, ps>>

\* getDoc finishing only when the replay loop ended by itself: no wall-clock cap
RestoreFinishNoCap(byCap, stored) ==
  /\ rs.pc = "reading"
  /\ ~LoopRuns
  /\ ~byCap
  /\ LET save == /\ rs.messageCount >= snapshotInterval
                 /\ rs.lastMessageId # 0
                 /\ stored
         new == MakeSnapshot(rs.ydoc, rs.lastMessageId,
                             rs.baseMessageCount + rs.messageCount)
     IN rs' = [rs EXCEPT
          !.pc = "done",
          !.tail = Len(rs.log),
          !.raced = byCap,
          !.result = rs.ydoc,
          !.snap = IF save THEN new ELSE @,
          !.written = IF save THEN Append(@, new) ELSE @]
  /\ UNCHANGED <<relayVars, srv, s3, ps>>

\* getDoc finishing, with the snapshot written only past the interval
RestoreFinishStrict(byCap, stored) ==
  /\ rs.pc = "reading"
  /\ byCap = LoopRuns
  /\ LET save == /\ rs.messageCount > snapshotInterval
                 /\ rs.lastMessageId # 0
                 /\ stored
         new == MakeSnapshot(rs.ydoc, rs.lastMessageId,
                             rs.baseMessageCount + rs.messageCount)
     IN rs' = [rs EXCEPT
          !.pc = "done",
          !.tail = Len(rs.log),
          !.raced = byCap,
          !.result = rs.ydoc,
          !.snap = IF save THEN new ELSE @,
          !.written = IF save THEN Append(@, new) ELSE @]
  /\ UNCHANGED <<relayVars, srv, s3, ps>>

\* lines 278-304: the replay ended, or the wall-clock cap won the race; encode
\* the state, snapshot when enough messages were folded (stored: the object
\* store accepted the write; a failed write is logged and swallowed), return
RestoreFinish(byCap, stored) ==
  /\ rs.pc = "reading"
  /\ byCap = LoopRuns
  /\ LET save == /\ rs.messageCount >= snapshotInterval
                 /\ rs.lastMessageId # 0
                 /\ stored
         new == MakeSnapshot(rs.ydoc, rs.lastMessageId,
                             rs.baseMessageCount + rs.messageCount)
     IN rs' = [rs EXCEPT
          !.pc = "done",
          !.tail = Len(rs.log),
          !.raced = byCap,
          !.result = rs.ydoc,
          !.snap = IF save THEN new ELSE @,
          !.written = IF save THEN Append(@, new) ELSE @]
  /\ UNCHANGED <<relayVars, srv, s3, ps>>

\* lines 245-273 after the wall-clock cap won the race: nothing ends the
\* replay loop, which goes on calling readNext; the reader is closed (lines
\* 309-317), so the read fails and counts as a timeout
ReplayAfterReturn ==
  /\ rs.pc = "done"
  /\ rs.raced
  /\ rs.consecutiveTimeouts < MAX_TIMEOUTS
  /\ rs.messageCount < snapshotInterval
  /\ rs' = [rs EXCEPT !.consecutiveTimeouts = @ + 1]
  /\ UNCHANGED <<relayVars, srv, s3, ps>>

\* a later getDoc call for the same document
RestoreAgain ==
  /\ rs.pc = "done"
  /\ rs.restores < MaxRestores
  /\ rs' = [rs EXCEPT !.pc = "idle"]
  /\ UNCHANGED <<relayVars, srv, s3, ps>>

\* utils.ts 312-318 and 378-385: the restored state is applied to the new
\* actor, and the actor subscribes to the document's Shared subscription.
\* The messages up to c are not delivered to this consumer: c is the end of
\* the topic when the subscription did not exist (no initial position is
\* given) or when its other consumers have received everything, and an
\* earlier position when the subscription holds a backlog
LiveSubscribe(c) ==
  /\ rs.pc = "done"
  /\ c <= Len(rs.log)
  /\ rs' = [rs EXCEPT !.pc = "live", !.subAt = c, !.cursor = c]
  /\ UNCHANGED <<relayVars, srv, s3, ps>>

\* the consumer loop receives the next message of the subscription
LiveReceive ==
  /\ rs.pc = "live"
  /\ rs.cursor < Len(rs.log)
  /\ LET msg == rs.log[rs.cursor + 1]
     IN rs' = [rs EXCEPT
          !.cursor = @ + 1,
          !.result = IF msg.kind = messageSync THEN @ \cup {msg.u} ELSE @]
  /\ UNCHANGED <<relayVars, srv, s3, ps>>

\* the store holds no snapshot, or an object saveSnapshot did not write
InitRestore ==
  /\ RelayInit
  /\ \E seed \in Seeds : rs = [RestoreStartState EXCEPT !.snap = seed]
  /\ srv = ServerOff
  /\ s3 = StoreOff
  /\ ps = PersistOff

NextRestore ==
  \/ \E kind \in LogKinds : LogPublish(kind)
  \/ \E readOk, cleared \in BOOLEAN : RestoreBegin(readOk, cleared)
  \/ ReplayRead
  \/ ReplayTimeout
  \/ \E byCap, stored \in BOOLEAN : RestoreFinish(byCap, stored)
  \/ RestoreAgain

SpecRestore == InitRestore /\ [][NextRestore]_vars

\* lines 276-290: the continuation of the race runs once the replay promise
\* resolves or the setTimeout of the wall-clock cap fires, and the timer always
\* fires; nothing is assumed about the reader serving or timing out
RestoreFairness == WF_vars(\E byCap, stored \in BOOLEAN : RestoreFinish(byCap, stored))

SpecRestoreFair == InitRestore /\ [][NextRestore]_vars /\ RestoreFairness

\* ---- SpecRestoreLive: one restore followed by the live subscription ----
NextRestoreLive ==
  \/ \E kind \in LogKinds : LogPublish(kind)
  \/ \E readOk, cleared \in BOOLEAN : RestoreBegin(readOk, cleared)
  \/ ReplayRead
  \/ ReplayTimeout
  \/ \E byCap, stored \in BOOLEAN : RestoreFinish(byCap, stored)
  \/ \E c \in 0..MaxLog : LiveSubscribe(c)
  \/ LiveReceive

SpecRestoreLive == InitRestore /\ [][NextRestoreLive]_vars

\* ---- SpecRestoreLoop: the restores with the replay loop after the cap ----
NextRestoreLoop ==
  \/ \E kind \in LogKinds : LogPublish(kind)
  \/ \E readOk, cleared \in BOOLEAN : RestoreBegin(readOk, cleared)
  \/ ReplayRead
  \/ ReplayTimeout
  \/ \E byCap, stored \in BOOLEAN : RestoreFinish(byCap, stored)
  \/ ReplayAfterReturn
  \/ RestoreAgain

SpecRestoreLoop == InitRestore /\ [][NextRestoreLoop]_vars


(***************************************************************************)
(* Server shell: startServer of index.ts, CleanupManager of cleanup.ts and *)
(* the keep-alive of setupWSConnection. Every connection names a document  *)
(* of its own, so a session that ends leaves its doc without connections.  *)
(***************************************************************************)
Conn == 1..MaxConns
\* the token of the request: the strategy's token, or another or none
Credentials == {"valid", "invalid"}
AuthStrategies == {"none", "token"}

\* the verdict the strategy passes to done(verified, code): NoAuthStrategy
\* accepts; the token strategy accepts its token and answers 401 otherwise
VerifyClientAllowAll(auth, cred) == [verified |-> TRUE, code |-> 0]

VerifyClient(auth, cred) ==
  IF auth = "none" \/ cred = "valid"
  THEN [verified |-> TRUE, code |-> 0]
  ELSE [verified |-> FALSE, code |-> Unauthorized]

\* a connection nobody opened yet
NoConn ==
  [req |-> "none", cred |-> "invalid", status |-> 0, ws |-> "none",
   session |-> FALSE, attached |-> FALSE, closeCode |-> 0,
   pongReceived |-> FALSE, pingInterval |-> FALSE, pings |-> 0,
   answered |-> FALSE, killed |-> FALSE, task |-> "none", early |-> FALSE]

ServerStart(auth) ==
  [pc |-> "running", auth |-> auth, clientClosed |-> FALSE,
   waiting |-> {}, conn |-> [k \in Conn |-> NoConn]]

\* the http server accepts upgrade requests until httpServer.close()
Listening == srv.pc \in {"running", "waiting", "wssClose", "clientClose", "httpClose"}

\* wss.close() ran: handleUpgrade aborts the handshake of a verified request
WssClosed == srv.pc \in {"clientClose", "httpClose"}

\* index.ts 23-35: the 'upgrade' handler. A request the strategy rejects gets
\* the status line and its socket destroyed; a verified one is handed to
\* wss.handleUpgrade, which emits 'connection'
Upgrade(k, cred) ==
  /\ srv.pc # "off" /\ Listening
  /\ srv.conn[k].req = "none"
  /\ LET v == VerifyClient(srv.auth, cred)
         c == [srv.conn[k] EXCEPT !.cred = cred]
     IN srv' = [srv EXCEPT !.conn[k] =
          IF ~v.verified
          THEN [c EXCEPT !.req = "rejected", !.status = v.code,
                         !.ws = "destroyed"]
          ELSE IF WssClosed
          THEN [c EXCEPT !.req = "unavailable", !.ws = "destroyed"]
          ELSE [c EXCEPT !.req = "accepted", !.ws = "open"]]
  /\ UNCHANGED <<relayVars, rs, s3, ps>>

\* index.ts 37-43 and utils.ts 531-563: setupWSConnection. getYDoc returns
\* the doc (ok) and the session is attached, its keep-alive armed; or it
\* throws and the socket is closed with 1011
SetupWSConnection(k, ok) ==
  /\ srv.pc # "off"
  /\ srv.conn[k].req = "accepted" /\ ~srv.conn[k].session
  /\ srv.conn[k].ws = "open"
  /\ srv' = [srv EXCEPT !.conn[k] =
       IF ok
       THEN [@ EXCEPT !.session = TRUE, !.attached = TRUE,
                      !.pongReceived = TRUE, !.pingInterval = TRUE]
       ELSE [@ EXCEPT !.session = TRUE, !.ws = "closed",
                      !.closeCode = InternalError]]
  /\ UNCHANGED <<relayVars, rs, s3, ps>>

\* the keep-alive tick that pings whatever the peer answered
KeepAliveTickAlwaysPing(k) ==
  /\ srv.pc # "off"
  /\ srv.conn[k].pingInterval
  /\ srv.conn[k].pings < MaxPings
  /\ srv' = [srv EXCEPT !.conn[k] =
       [@ EXCEPT !.pongReceived = FALSE,
                 !.pings = IF srv.conn[k].ws = "open" THEN @ + 1 ELSE @,
                 !.answered = IF srv.conn[k].ws = "open" THEN FALSE ELSE @]]
  /\ UNCHANGED <<relayVars, rs, s3, ps>>

\* utils.ts 544-552: the setInterval callback. Without a pong since the last
\* tick the socket is terminated and the interval cleared; conn.ping() on the
\* socket that is no longer open sends nothing
KeepAliveTick(k) ==
  /\ srv.pc # "off"
  /\ srv.conn[k].pingInterval
  /\ srv.conn[k].pings < MaxPings \/ ~srv.conn[k].pongReceived
  /\ LET c == srv.conn[k]
         terminate == ~c.pongReceived
         ws1 == IF terminate /\ c.ws = "open" THEN "terminated" ELSE c.ws
         pinged == ws1 = "open"
     IN srv' = [srv EXCEPT !.conn[k] =
          [c EXCEPT !.ws = ws1,
                    !.killed = @ \/ (terminate /\ c.ws = "open"),
                    !.pingInterval = ~terminate,
                    !.pongReceived = FALSE,
                    !.pings = IF pinged THEN @ + 1 ELSE @,
                    !.answered = IF pinged THEN FALSE ELSE @]]
  /\ UNCHANGED <<relayVars, rs, s3, ps>>

\* utils.ts 554-556: conn.on('pong')
Pong(k) ==
  /\ srv.pc # "off"
  /\ srv.conn[k].ws = "open" /\ srv.conn[k].attached
  /\ ~(srv.conn[k].pongReceived /\ srv.conn[k].answered)
  /\ srv' = [srv EXCEPT !.conn[k] =
       [@ EXCEPT !.pongReceived = TRUE, !.answered = TRUE]]
  /\ UNCHANGED <<relayVars, rs, s3, ps>>

\* utils.ts 273-283 and cleanup.ts 4-9: the 'close' event of an attached
\* session (the peer left, or the socket was terminated). The doc has no
\* connection left: doc.destroy() starts and its promise is registered (early:
\* before waitForAll returned to stop())
SessionClose(k) ==
  /\ srv.pc # "off"
  /\ srv.conn[k].attached
  /\ srv.conn[k].ws \in {"open", "terminated"}
  /\ srv' = [srv EXCEPT !.conn[k] =
       [@ EXCEPT !.ws = "closed", !.attached = FALSE,
                 !.task = "pending",
                 !.early = srv.pc \in {"running", "waiting"}]]
  /\ UNCHANGED <<relayVars, rs, s3, ps>>

\* cleanup.ts 6-8: the registered promise settles (fulfilled: ok) and leaves
\* pendingCleanupPromises
TaskSettle(k, ok) ==
  /\ srv.pc # "off"
  /\ srv.conn[k].task = "pending"
  /\ srv' = [srv EXCEPT !.conn[k].task = IF ok THEN "fulfilled" ELSE "rejected"]
  /\ UNCHANGED <<relayVars, rs, s3, ps>>

pendingCleanupPromises == {k \in Conn : srv.conn[k].task = "pending"}

\* index.ts 45-46 and cleanup.ts 12-14: stop() calls waitForAll, which awaits
\* Promise.allSettled over the promises pending at the call; over none it
\* resumes before any other event is handled
Stop ==
  /\ srv.pc = "running"
  /\ srv' = [srv EXCEPT
       !.pc = IF pendingCleanupPromises = {} THEN "wssClose" ELSE "waiting",
       !.waiting = pendingCleanupPromises]
  /\ UNCHANGED <<relayVars, rs, s3, ps>>

\* cleanup.ts 13: every awaited promise settled, fulfilled or rejected
WaitForAllReturns ==
  /\ srv.pc = "waiting"
  /\ srv.waiting \cap pendingCleanupPromises = {}
  /\ srv' = [srv EXCEPT !.pc = "wssClose", !.waiting = {}]
  /\ UNCHANGED <<relayVars, rs, s3, ps>>

\* index.ts 47: wss.close(); the sessions stay open
StopWssClose ==
  /\ srv.pc = "wssClose"
  /\ srv' = [srv EXCEPT !.pc = "clientClose"]
  /\ UNCHANGED <<relayVars, rs, s3, ps>>

\* index.ts 48-50: the broker client is closed unless the caller supplied it
\* (own: config.pulsarClient is not set)
StopClientClose(own) ==
  /\ srv.pc = "clientClose"
  /\ srv' = [srv EXCEPT !.pc = "httpClose", !.clientClosed = own]
  /\ UNCHANGED <<relayVars, rs, s3, ps>>

\* index.ts 51: httpServer.close() stops listening
StopHttpClose ==
  /\ srv.pc = "httpClose"
  /\ srv' = [srv EXCEPT !.pc = "httpClosing"]
  /\ UNCHANGED <<relayVars, rs, s3, ps>>

\* index.ts 51-52: the callback of httpServer.close() runs when no socket of
\* the server is left open; stop() returns
StopReturns ==
  /\ srv.pc = "httpClosing"
  /\ \A k \in Conn : srv.conn[k].ws \notin {"open", "terminated"}
  /\ srv' = [srv EXCEPT !.pc = "stopped"]
  /\ UNCHANGED <<relayVars, rs, s3, ps>>

InitServer ==
  /\ RelayInit
  /\ rs = RestoreIdle
  /\ \E auth \in AuthStrategies : srv = ServerStart(auth)
  /\ s3 = StoreOff
  /\ ps = PersistOff

NextServer ==
  \/ \E k \in Conn, cred \in Credentials : Upgrade(k, cred)
  \/ \E k \in Conn, ok \in BOOLEAN : SetupWSConnection(k, ok)
  \/ \E k \in Conn : KeepAliveTick(k)
  \/ \E k \in Conn : Pong(k)
  \/ \E k \in Conn : SessionClose(k)
  \/ \E k \in Conn, ok \in BOOLEAN : TaskSettle(k, ok)
  \/ Stop
  \/ WaitForAllReturns
  \/ StopWssClose
  \/ \E own \in BOOLEAN : StopClientClose(own)
  \/ StopHttpClose
  \/ StopReturns

SpecServer == InitServer /\ [][NextServer]_vars


(***************************************************************************)
(* Object store: S3Storage of src/storage/s3.ts against one bucket.        *)
(***************************************************************************)
\* the key of the document's snapshot object
Keys == {"k1"}

\* ---- JSON text, as the tokens of its characters ----
Punct(c) == [t |-> c, s |-> "", v |-> <<>>]
\* a string literal of a property name, and one of given character codes
Name(n) == [t |-> "str", s |-> n, v |-> <<>>]
Str(chars) == [t |-> "str", s |-> "", v |-> chars]

\* the decimal digits of a number, and the number of decimal digits
RECURSIVE Digits(_)
Digits(n) == IF n < 10 THEN <<n>> ELSE Append(Digits(n \div 10), n % 10)
RECURSIVE FromDigits(_)
FromDigits(ds) ==
  IF Len(ds) = 0 THEN 0
  ELSE 10 * FromDigits(SubSeq(ds, 1, Len(ds) - 1)) + ds[Len(ds)]
Num(n) == [t |-> "num", s |-> "", v |-> Digits(n)]

\* JSON.stringify of an array of numbers: [n1,n2,...]
RECURSIVE StringifyItems(_)
StringifyItems(arr) ==
  IF Len(arr) = 0 THEN <<>>
  ELSE IF Len(arr) = 1 THEN <<Num(arr[1])>>
  ELSE <<Num(arr[1]), Punct(",")>> \o StringifyItems(Tail(arr))
StringifyArray(arr) == <<Punct("[")>> \o StringifyItems(arr) \o <<Punct("]")>>

\* pulsar-storage.ts 125-133: the DocumentSnapshot built from the state bytes
\* (Array.from) and JSON.stringify of it, properties in the order written
Stringify(snapshot) ==
  <<Punct("{"), Name("state"), Punct(":")>> \o StringifyArray(snapshot.state) \o
  <<Punct(","), Name("lastMessageId"), Punct(":"), Str(snapshot.lastMessageId),
    Punct(","), Name("messageCount"), Punct(":"), Num(snapshot.messageCount),
    Punct(","), Name("timestamp"), Punct(":"), Num(snapshot.timestamp),
    Punct("}")>>

\* JSON.stringify of a snapshot that leaves the checkpoint out
StringifyNoCheckpoint(snapshot) ==
  <<Punct("{"), Name("state"), Punct(":")>> \o StringifyArray(snapshot.state) \o
  <<Punct(","), Name("messageCount"), Punct(":"), Num(snapshot.messageCount),
    Punct(","), Name("timestamp"), Punct(":"), Num(snapshot.timestamp),
    Punct("}")>>

\* JSON.parse of an array that starts at token i: the numbers and the position
\* after the closing bracket, or a syntax error
RECURSIVE ParseItems(_, _, _)
ParseItems(text, i, acc) ==
  IF i > Len(text) THEN [ok |-> FALSE, arr |-> <<>>, next |-> i]
  ELSE IF text[i].t = "]" /\ Len(acc) = 0
  THEN [ok |-> TRUE, arr |-> acc, next |-> i + 1]
  ELSE IF text[i].t # "num" \/ i + 1 > Len(text)
  THEN [ok |-> FALSE, arr |-> <<>>, next |-> i]
  ELSE LET acc1 == Append(acc, FromDigits(text[i].v)) IN
       IF text[i + 1].t = "]" THEN [ok |-> TRUE, arr |-> acc1, next |-> i + 2]
       ELSE IF text[i + 1].t = "," /\ i + 2 <= Len(text) /\ text[i + 2].t = "num"
       THEN ParseItems(text, i + 2, acc1)
       ELSE [ok |-> FALSE, arr |-> <<>>, next |-> i]

\* a parsed object: which of the properties the loader reads it has, and
\* their values
NoObject ==
  [ok |-> FALSE, has |-> {}, state |-> <<>>, stateIsArray |-> FALSE,
   lastMessageId |-> <<>>, idIsString |-> FALSE,
   messageCount |-> 0, countIsNumber |-> FALSE, timestamp |-> 0]

\* JSON.parse of the members of an object from token i on: "name": value,
\* separated by commas, up to the closing brace that ends the text
RECURSIVE ParseMembers(_, _, _)
ParseMembers(text, i, acc) ==
  IF i + 2 > Len(text) \/ text[i].t # "str" \/ text[i].s = "" \/ text[i + 1].t # ":"
  THEN NoObject
  ELSE LET n == text[i].s
           val == text[i + 2]
           arr == IF val.t = "[" THEN ParseItems(text, i + 3, <<>>)
                  ELSE [ok |-> FALSE, arr |-> <<>>, next |-> i + 3]
           valOk == val.t \in {"str", "num"} \/ arr.ok
           next == IF val.t = "[" THEN arr.next ELSE i + 3
           acc1 == [acc EXCEPT
                      !.has = @ \cup {n},
                      !.state = IF n = "state" /\ arr.ok THEN arr.arr ELSE @,
                      !.stateIsArray = IF n = "state" THEN arr.ok ELSE @,
                      !.lastMessageId = IF n = "lastMessageId" /\ val.t = "str"
                                        THEN val.v ELSE @,
                      !.idIsString = IF n = "lastMessageId" THEN val.t = "str" ELSE @,
                      !.messageCount = IF n = "messageCount" /\ val.t = "num"
                                       THEN FromDigits(val.v) ELSE @,
                      !.countIsNumber = IF n = "messageCount" THEN val.t = "num" ELSE @,
                      !.timestamp = IF n = "timestamp" /\ val.t = "num"
                                    THEN FromDigits(val.v) ELSE @]
       IN IF ~valOk \/ next > Len(text) THEN NoObject
          ELSE IF text[next].t = "}"
          THEN IF next = Len(text) THEN [acc1 EXCEPT !.ok = TRUE] ELSE NoObject
          ELSE IF text[next].t = "," THEN ParseMembers(text, next + 1, acc1)
          ELSE NoObject

\* JSON.parse of the object's content; a syntax error throws (ok = FALSE)
Parse(text) ==
  IF Len(text) < 2 \/ text[1].t # "{" THEN NoObject
  ELSE IF Len(text) = 2
  THEN IF text[2].t = "}" THEN [NoObject EXCEPT !.ok = TRUE] ELSE NoObject
  ELSE ParseMembers(text, 2, NoObject)

\* the numbers read into signed bytes
ToInt8Array(arr) == [j \in 1..Len(arr) |-> arr[j] % 128]

\* new Uint8Array(array): every number taken modulo 256
ToUint8Array(arr) == [j \in 1..Len(arr) |-> arr[j] % 256]

NoSnapshot ==
  [null |-> TRUE, state |-> <<>>, lastMessageId |-> <<>>, messageCount |-> 0,
   timestamp |-> 0]

\* pulsar-storage.ts 73-93: no object, content that does not parse or a record
\* without state, checkpoint or a numeric count give null; otherwise the
\* record, its state as bytes
DecodeSnapshot(null, content) ==
  LET snapshot == Parse(content) IN
  IF null \/ ~snapshot.ok THEN NoSnapshot
  ELSE IF \/ ~("state" \in snapshot.has /\ snapshot.stateIsArray)
          \/ ~("lastMessageId" \in snapshot.has /\ snapshot.idIsString
               /\ Len(snapshot.lastMessageId) > 0)
          \/ ~("messageCount" \in snapshot.has /\ snapshot.countIsNumber)
  THEN NoSnapshot
  ELSE [null |-> FALSE, state |-> ToUint8Array(snapshot.state),
        lastMessageId |-> snapshot.lastMessageId,
        messageCount |-> snapshot.messageCount,
        timestamp |-> snapshot.timestamp]

\* the snapshots saveSnapshot is called with: state bytes, the message id of
\* the checkpoint, the count, and the time of the call
StateBytes == {<<>>, <<0>>, <<1, 255>>}
Snapshots ==
  [state : StateBytes, lastMessageId : {ToBase64(Serialize(k)) : k \in {1, 9}},
   messageCount : {0, 2, 10}, timestamp : {7, 1736}]

\* pulsar-storage.ts 125-133: what saveSnapshot stores for a snapshot
EncodeSnapshot(snapshot) == Stringify(snapshot)

\* content in the bucket that saveSnapshot did not write: the emptied object
\* of clearSnapshot, a cut-off text, a record without a checkpoint, and one
\* with an empty checkpoint
Foreign ==
  LET sn == CHOOSE x \in Snapshots : x.state = <<0>> /\ x.messageCount = 2
                                      /\ x.timestamp = 7
                                      /\ x.lastMessageId = ToBase64(Serialize(1))
  IN { <<>>,
       SubSeq(Stringify(sn), 1, 6),
       StringifyNoCheckpoint(sn),
       Stringify([sn EXCEPT !.lastMessageId = <<>>]) }

\* the errors s3.send (or reading the body stream) can reject with, by what
\* went wrong (class) and by the fields getDoc looks at: error.name,
\* error.Code and error.$metadata.httpStatusCode (0: the field is not there)
S3Errors ==
  { [class |-> "notFound", name |-> "NoSuchKey", Code |-> "NoSuchKey", status |-> NotFound],
    [class |-> "notFound", name |-> "NoSuchKey", Code |-> "", status |-> 0],
    [class |-> "notFound", name |-> "NotFound", Code |-> "", status |-> NotFound],
    [class |-> "credential", name |-> "InvalidAccessKeyId", Code |-> "InvalidAccessKeyId", status |-> Forbidden],
    [class |-> "credential", name |-> "SignatureDoesNotMatch", Code |-> "SignatureDoesNotMatch", status |-> Forbidden],
    [class |-> "credential", name |-> "AccessDenied", Code |-> "AccessDenied", status |-> Forbidden],
    [class |-> "credential", name |-> "AccessDenied", Code |-> "AccessDenied", status |-> 0],
    [class |-> "credential", name |-> "Forbidden", Code |-> "", status |-> Forbidden],
    [class |-> "other", name |-> "InternalError", Code |-> "InternalError", status |-> 500],
    [class |-> "other", name |-> "SlowDown", Code |-> "SlowDown", status |-> 503],
    [class |-> "other", name |-> "TimeoutError", Code |-> "", status |-> 0],
    [class |-> "other", name |-> "StreamError", Code |-> "", status |-> 0] }

NoError == [class |-> "none", name |-> "", Code |-> "", status |-> 0]

\* faults the bucket answers a request with instead of serving it
Faults == {e \in S3Errors : e # [class |-> "notFound", name |-> "NoSuchKey",
                                  Code |-> "NoSuchKey", status |-> NotFound]}

\* a PutObject is served, or rejected by the bucket
PutFaults ==
  {NoError, [class |-> "other", name |-> "SlowDown", Code |-> "SlowDown", status |-> 503]}

\* what GetObject answers: the object's body, a response without a body, the
\* NoSuchKey error for a key that is not there, or the fault
GetObject(st, key, fault, bodyless) ==
  IF fault # NoError
  THEN [ok |-> FALSE, hasBody |-> FALSE, body |-> <<>>, error |-> fault]
  ELSE IF key \notin st.present
  THEN [ok |-> FALSE, hasBody |-> FALSE, body |-> <<>>,
        error |-> [class |-> "notFound", name |-> "NoSuchKey",
                   Code |-> "NoSuchKey", status |-> NotFound]]
  ELSE [ok |-> TRUE, hasBody |-> ~bodyless,
        body |-> IF bodyless THEN <<>> ELSE st.objects[key], error |-> NoError]

\* getDoc with a catch block that returns null for every error
GetDocSwallowsAll(resp) ==
  IF resp.ok
  THEN [null |-> ~resp.hasBody, ret |-> resp.body, thrown |-> NoError,
        logged |-> FALSE]
  ELSE [null |-> TRUE, ret |-> <<>>, thrown |-> NoError, logged |-> TRUE]

\* s3.ts 55-81: the body of the response, or null without one; in the catch
\* block null for not-found, null and a log line for an access error, a log
\* line and the error rethrown otherwise
GetDoc(resp) ==
  IF resp.ok
  THEN [null |-> ~resp.hasBody, ret |-> resp.body, thrown |-> NoError,
        logged |-> FALSE]
  ELSE LET error == resp.error IN
       IF \/ error.name = "NoSuchKey"
          \/ error.Code = "NoSuchKey"
          \/ error.status = NotFound
       THEN [null |-> TRUE, ret |-> <<>>, thrown |-> NoError, logged |-> FALSE]
       ELSE IF \/ error.Code = "InvalidAccessKeyId"
               \/ error.Code = "SignatureDoesNotMatch"
               \/ error.Code = "AccessDenied"
               \/ error.status = Forbidden
       THEN [null |-> TRUE, ret |-> <<>>, thrown |-> NoError, logged |-> TRUE]
       ELSE [null |-> TRUE, ret |-> <<>>, thrown |-> error, logged |-> TRUE]

NoCall ==
  [op |-> "none", key |-> "k1",
   resp |-> [ok |-> TRUE, hasBody |-> FALSE, body |-> <<>>, error |-> NoError],
   out |-> [null |-> TRUE, ret |-> <<>>, thrown |-> NoError, logged |-> FALSE],
   saved |-> NoSnapshot, loaded |-> NoSnapshot]

\* the bucket: the keys that hold an object, the objects' content, and the
\* last call with its outcome; written: the snapshot saveSnapshot stored under
\* a key while its content is the one stored
StoreStart ==
  [pc |-> "on", present |-> {}, objects |-> [k \in Keys |-> <<>>],
   written |-> [k \in Keys |-> NoSnapshot], last |-> NoCall]

\* s3.ts 40-47: storeDoc by another writer; a failed PutObject rejects the call
S3StoreDoc(key, body, fault) ==
  /\ s3.pc = "on"
  /\ s3' = [s3 EXCEPT
       !.present = IF fault = NoError THEN @ \cup {key} ELSE @,
       !.objects[key] = IF fault = NoError THEN body ELSE @,
       !.written[key] = IF fault = NoError THEN NoSnapshot ELSE @,
       !.last = [NoCall EXCEPT !.op = "storeDoc", !.key = key,
                   !.resp.ok = (fault = NoError), !.resp.error = fault,
                   !.out.thrown = fault]]
  /\ UNCHANGED <<relayVars, rs, srv, ps>>

\* s3.ts 49-82: getDoc
S3GetDoc(key, fault, bodyless) ==
  /\ s3.pc = "on"
  /\ LET resp == GetObject(s3, key, fault, bodyless)
     IN s3' = [s3 EXCEPT
          !.last = [NoCall EXCEPT !.op = "getDoc", !.key = key, !.resp = resp,
                      !.out = GetDoc(resp)]]
  /\ UNCHANGED <<relayVars, rs, srv, ps>>

\* pulsar-storage.ts 118-140: saveSnapshot; a failed write is logged
SaveSnapshot(key, snapshot, fault) ==
  /\ s3.pc = "on"
  /\ s3' = [s3 EXCEPT
       !.present = IF fault = NoError THEN @ \cup {key} ELSE @,
       !.objects[key] = IF fault = NoError THEN EncodeSnapshot(snapshot) ELSE @,
       !.written[key] = IF fault = NoError
                        THEN [null |-> FALSE, state |-> snapshot.state,
                              lastMessageId |-> snapshot.lastMessageId,
                              messageCount |-> snapshot.messageCount,
                              timestamp |-> snapshot.timestamp]
                        ELSE @,
       !.last = [NoCall EXCEPT !.op = "saveSnapshot", !.key = key,
                   !.resp.ok = (fault = NoError), !.resp.error = fault,
                   !.out.logged = (fault # NoError),
                   !.saved = [null |-> FALSE, state |-> snapshot.state,
                              lastMessageId |-> snapshot.lastMessageId,
                              messageCount |-> snapshot.messageCount,
                              timestamp |-> snapshot.timestamp]]]
  /\ UNCHANGED <<relayVars, rs, srv, ps>>

\* pulsar-storage.ts 63-95: loadSnapshot; an error of getDoc or of the
\* decoding is logged and null returned
LoadSnapshot(key, fault) ==
  /\ s3.pc = "on"
  /\ LET resp == GetObject(s3, key, fault, FALSE)
         out == GetDoc(resp)
         failed == out.thrown # NoError
     IN s3' = [s3 EXCEPT
          !.last = [NoCall EXCEPT !.op = "loadSnapshot", !.key = key,
                      !.resp = resp, !.out = out,
                      !.loaded = DecodeSnapshot(out.null \/ failed, out.ret)]]
  /\ UNCHANGED <<relayVars, rs, srv, ps>>

InitStore ==
  /\ RelayInit
  /\ rs = RestoreIdle
  /\ srv = ServerOff
  /\ s3 = StoreStart
  /\ ps = PersistOff

NextStore ==
  \/ \E key \in Keys, body \in Foreign, fault \in PutFaults :
       S3StoreDoc(key, body, fault)
  \/ \E key \in Keys, fault \in Faults \cup {NoError}, bodyless \in BOOLEAN :
       S3GetDoc(key, fault, bodyless)
  \/ \E key \in Keys, snapshot \in Snapshots, fault \in PutFaults :
       SaveSnapshot(key, snapshot, fault)
  \/ \E key \in Keys, fault \in Faults \cup {NoError} : LoadSnapshot(key, fault)

SpecStore == InitStore /\ [][NextStore]_vars

(***************************************************************************)
(* The actors of one document name in object-store mode: destroy() stores  *)
(* the state before it closes and unregisters (utils.ts 217-247), getYDoc  *)
(* loads the stored state into a new actor (312-318)                       *)
(***************************************************************************)
\* actors constructed for the name
MaxGen == 2
\* updates the peers produce
PersistUpdates == {1}
\* attaches per actor, and reconnects of the supervisor
MaxAttach == 2
MaxReconnects == 1

Gen == 1..MaxGen

PersistStart ==
  [pc |-> "on",
   docs |-> 0,                           \* the actor registered, 0: none
   n |-> 0,                              \* actors constructed
   ydoc |-> [g \in Gen |-> {}],          \* updates the actor has applied
   loading |-> [g \in Gen |-> FALSE],    \* storage.getDoc is awaited
   conns |-> [g \in Gen |-> 0],          \* peers in the actor's map
   attaches |-> [g \in Gen |-> 0],
   storing |-> [g \in Gen |-> {}],       \* states destroy() is storing
   closing |-> [g \in Gen |-> 0],        \* destroy() calls past the store
   object |-> {},                        \* the stored document, {} if none
   reconnects |-> 0]

\* YDoc.destroy() up to its first await: storeDoc(name, encodeStateAsUpdate)
PersistDestroy(st, g) == [st EXCEPT !.storing[g] = @ \cup {st.ydoc[g]}]

\* getYDoc and the attach: the registered actor is returned at once;
\* otherwise a new one is constructed and registered, and the load begins
PersistGetYDoc ==
  /\ ps.pc = "on"
  /\ IF ps.docs # 0
     THEN /\ ps.attaches[ps.docs] < MaxAttach
          /\ ps' = [ps EXCEPT !.conns[ps.docs] = @ + 1,
                              !.attaches[ps.docs] = @ + 1]
     ELSE /\ ps.n < MaxGen
          /\ ps' = [ps EXCEPT !.n = @ + 1, !.docs = ps.n + 1,
                              !.loading[ps.n + 1] = TRUE]
  /\ UNCHANGED <<relayVars, rs, srv, s3>>

\* lines 312-318 and 536-537: storage.getDoc has answered, the stored state
\* is applied; the broker steps follow and the creator is attached
PersistLoaded(g) ==
  /\ ps.pc = "on"
  /\ ps.loading[g]
  /\ ps' = [ps EXCEPT !.loading[g] = FALSE,
                      !.ydoc[g] = @ \cup ps.object,
                      !.conns[g] = @ + 1,
                      !.attaches[g] = @ + 1]
  /\ UNCHANGED <<relayVars, rs, srv, s3>>

\* a frame of an attached peer carries an update the actor applies
PersistUpdate(g, u) ==
  /\ ps.pc = "on"
  /\ ps.conns[g] > 0
  /\ u \notin ps.ydoc[g]
  /\ ps' = [ps EXCEPT !.ydoc[g] = @ \cup {u}]
  /\ UNCHANGED <<relayVars, rs, srv, s3>>

\* onClose: the peer leaves the map, and the last one starts destroy()
PersistOnClose(g) ==
  /\ ps.pc = "on"
  /\ ps.conns[g] > 0
  /\ LET st == [ps EXCEPT !.conns[g] = @ - 1]
     IN ps' = IF st.conns[g] = 0 THEN PersistDestroy(st, g) ELSE st
  /\ UNCHANGED <<relayVars, rs, srv, s3>>

\* reconnectPulsarClient, lines 268-269: destroy() on the registered doc, not
\* awaited, and docs.clear()
PersistReconnect ==
  /\ ps.pc = "on"
  /\ ps.reconnects < MaxReconnects
  /\ LET st == IF ps.docs # 0 THEN PersistDestroy(ps, ps.docs) ELSE ps
     IN ps' = [st EXCEPT !.docs = 0, !.reconnects = @ + 1]
  /\ UNCHANGED <<relayVars, rs, srv, s3>>

\* storeDoc of a destroy() has settled: the object is replaced when the put
\* succeeded, a failure is logged (lines 221-225); the closes begin
PersistStoreDoc(g, state, ok) ==
  /\ ps.pc = "on"
  /\ state \in ps.storing[g]
  /\ ps' = [ps EXCEPT !.storing[g] = @ \ {state},
                      !.closing[g] = @ + 1,
                      !.object = IF ok THEN state ELSE @]
  /\ UNCHANGED <<relayVars, rs, srv, s3>>

\* destroy() after the closes: super.destroy() and docs.delete(this.name)
PersistDestroyFinish(g) ==
  /\ ps.pc = "on"
  /\ ps.closing[g] > 0
  /\ ps' = [ps EXCEPT !.closing[g] = @ - 1, !.docs = 0]
  /\ UNCHANGED <<relayVars, rs, srv, s3>>

InitPersist ==
  /\ RelayInit
  /\ rs = RestoreIdle
  /\ srv = ServerOff
  /\ s3 = StoreOff
  /\ ps = PersistStart

NextPersist ==
  \/ PersistGetYDoc
  \/ \E g \in Gen : PersistLoaded(g)
  \/ \E g \in Gen, u \in PersistUpdates : PersistUpdate(g, u)
  \/ \E g \in Gen : PersistOnClose(g)
  \/ PersistReconnect
  \/ \E g \in Gen, state \in SUBSET PersistUpdates, ok \in BOOLEAN :
       PersistStoreDoc(g, state, ok)
  \/ \E g \in Gen : PersistDestroyFinish(g)

SpecPersist == InitPersist /\ [][NextPersist]_vars



(***************************************************************************)
(* Properties                                                              *)
(***************************************************************************)
SyncMessage(k) == topic[k].data[1] = messageSync
Acked(k) == delivered[k] \in ActorId

\* C1: with instances X and Y each holding a running, subscribed actor for the
\* document, every SYNC message published from one instance is received by the
\* other instance's consumer and applied to its actor. Stated as safety: once
\* a SYNC message has been acknowledged on the shared subscription (it is never
\* delivered again), every actor of another instance that was subscribed when
\* it was published, and still is, has integrated its update.
C1_EverySubscriberReceives ==
  \A k \in 1..Len(topic) :
    (SyncMessage(k) /\ Acked(k)) =>
      \A b \in topic[k].subs :
        (InstOf(b) # InstOf(topic[k].from) /\ consumer[b] = "open" /\ ~Dying(b))
          => topic[k].data[2] \in ydoc[b]

\* the frame changes the state of the actor the peer is attached to
FrameChanges(p, d) ==
  LET a == attached[p] IN
  \/ d.res = "update" /\ d.u \notin ydoc[a]
  \/ /\ d.res = "awareness"
     /\ awClock[a][d.e.id] < d.e.clock
     /\ (d.e.present \/ d.e.id \in awStates[a])

\* the broker payload of a frame: [0x00 || update] or [0x01 || diff]
Payload(d) ==
  IF d.res = "update" THEN <<messageSync, d.u>>
  ELSE <<messageAwareness>> \o AwBytes(d.e)

\* what the other peers are sent for a frame
Forwarded(d) ==
  IF d.res = "update" THEN <<"sync", d.u, 0, 0>>
  ELSE <<"aw", d.e.id, d.e.clock, IF d.e.present THEN 1 ELSE 0>>

\* C2: every frame (SYNC update or awareness diff) that a peer attached to an
\* actor originates is sent to every other peer attached to that actor, and
\* exactly one broker message carrying it is published: never zero, never more
\* than one.
C2_PublishedExactlyOnce ==
  [][\A p \in RelayPeers, m \in GoodFrames :
       LET d == Decode(m)
           a == attached[p]
       IN (OnMessage(p, m) /\ p \in DOMAIN conns[a] /\ FrameChanges(p, d)) =>
            /\ Len(topic') = Len(topic) + 1
            /\ topic'[Len(topic')].data = Payload(d)
            /\ \A q \in DOMAIN conns[a] \ {p} :
                 sock[q] = "open" => Forwarded(d) \in recv'[q]]_vars

\* C3: applying a message received from the broker (SYNC or AWARENESS) never
\* publishes: the ingress step leaves the topic as it is, and no message on
\* the topic carries the broker origin.
C3_IngressNeverRepublishes ==
  [][\A a \in ActorId, k \in 1..MaxTopic :
       ConsumerReceive(a, k) =>
         /\ topic' = topic
         /\ \A j \in 1..Len(topic') : topic'[j].origin # PULSAR_ORIGIN]_vars

\* C3 witness: an actor received a SYNC message another instance published,
\* integrated its update and forwarded it to an attached peer
C3_Witness ==
  \E k \in 1..Len(topic) :
    /\ SyncMessage(k) /\ Acked(k)
    /\ InstOf(delivered[k]) # InstOf(topic[k].from)
    /\ topic[k].data[2] \in ydoc[delivered[k]]
    /\ \E q \in DOMAIN conns[delivered[k]] :
         <<"sync", topic[k].data[2], 0, 0>> \in recv[q]

\* C4: a caller of getYDoc that arrives while the creation for the name is in
\* flight obtains the actor only once that creation (producer, consumer) has
\* completed.
C4_WaitsForCreation ==
  \A p \in Peer : ret[p].how = "existing" => ret[p].ready

\* C6: after a peer detaches from a running actor, no awareness id it
\* introduced remains in the actor's awareness state.
C6_DetachRemovesAwareness ==
  [][\A p \in RelayPeers :
       LET a == attached[p] IN
       (/\ a \in ActorId /\ cstate[a] = "ready" /\ ~Dying(a)
        /\ p \in DOMAIN conns[a] /\ p \notin DOMAIN conns'[a]) =>
          introduced[p] \cap awStates'[a] = {}]_vars

\* C7: getYDoc never returns the registered actor once its tear-down has begun.
C7_NeverReturnsDyingActor ==
  \A p \in Peer : ret[p].how = "existing" => ~ret[p].dying

C10_CreatedActorRuns ==
  \A p \in Peer :
    /\ attempt[p] <= MAX_RETRIES
    /\ (ret[p].how = "created" /\ \A q \in Peer \ {p} : attached[q] # attached[p])
         => ret[p].running
    /\ gpc[p] = "threw" =>
         /\ sock[p] = "closed" /\ closeCode[p] = InternalError
         /\ \A a \in ActorId : p \notin DOMAIN conns[a]

\* the updates of the SYNC messages after position k of the topic
FoldFrom(k) ==
  {rs.log[j].u : j \in {x \in (k + 1)..Len(rs.log) : rs.log[x].kind = messageSync}}
\* the updates of the SYNC messages up to position k
FoldUpTo(k) ==
  {rs.log[j].u : j \in {x \in 1..k : rs.log[x].kind = messageSync}}

\* C5: a restore that met no snapshot or a usable one, and whose reads were
\* all answered, returns a state that contains every SYNC update that was on
\* the topic when it began.
C5_RestoreHoldsEveryUpdate ==
  (/\ rs.pc = "done" /\ ~rs.raced /\ rs.consecutiveTimeouts = 0
   /\ rs.found \in {"absent", "valid"})
    => FoldUpTo(rs.atStart) \subseteq rs.result

C11_MalformedSnapshotAsAbsent ==
  (rs.pc = "done" /\ rs.found \in {"undecodable", "badCheckpoint"}) =>
    /\ rs.clears = 1
    /\ ~rs.failed
    /\ rs.baseMessageCount = 0
    /\ rs.result = FoldUpTo(rs.pos)


InFlight(i) == rProbe[i] + rClose[i]

\* C13: at most one supervisor reconnect is in flight at any time.
C13_OneReconnectInFlight ==
  \A i \in Inst : InFlight(i) <= 1


\* C14: the messageCount of the snapshots written for the document never
\* decreases from one snapshot to the next.
C14_MessageCountMonotonic ==
  rs.pc # "off" =>
    \A m, n \in 1..Len(rs.written) :
      m < n => rs.written[m].messageCount <= rs.written[n].messageCount

\* the SYNC messages the current replay read: those after the position the
\* reader was opened at, up to the reader position
FoldedNow == FoldUpTo(rs.pos) \ FoldUpTo(rs.from)

C16_ReplayTerminates ==
  /\ [](rs.pc = "reading" => rs.consecutiveTimeouts <= MAX_TIMEOUTS)
  /\ [][(/\ rs.pc = "reading" /\ rs.consecutiveTimeouts = MAX_TIMEOUTS
          /\ rs' # [rs EXCEPT !.log = rs'.log]) =>
         (rs'.pc = "done" /\ rs'.result = rs.ydoc /\ ~rs'.raced)]_vars
  /\ (rs.pc = "reading") ~> (rs.pc = "done")

\* C16 witness: a replay left after MAX_TIMEOUTS consecutive timeouts, returning
\* the messages folded before them
C16_Witness ==
  /\ rs.pc = "done" /\ ~rs.raced
  /\ rs.consecutiveTimeouts = MAX_TIMEOUTS
  /\ rs.messageCount > 0 /\ rs.messageCount < snapshotInterval
  /\ rs.result = FoldUpTo(rs.pos) /\ rs.result # {}


\* the handshake frames of a peer attached to actor a, from the actor's state
HandshakeOf(a) ==
  {<<"step1", StateVector(ydoc[a]), 1, 0>>} \cup
  (IF awStates[a] # {} \/ ~destroyed[a]
   THEN {<<"awAll", Cardinality(awStates[a]) + (IF destroyed[a] THEN 0 ELSE 1),
           2, 0>>}
   ELSE {})

\* C18: a peer that is not attached has been sent nothing; the step that
\* sends a peer its first frames sends sync step 1 of the actor's current state
\* first and then one frame with the full awareness state exactly when that
\* state is non-empty; no later step sends a handshake frame again.
C18_HandshakeFirst ==
  [][\A p \in RelayPeers :
       /\ sock[p] \in {"idle", "setup"} => recv[p] = {}
       /\ recv'[p] = recv[p] \/
            IF recv[p] = {}
            THEN /\ attached'[p] \in ActorId
                 /\ p \in DOMAIN conns'[attached'[p]]
                 /\ ydoc'[attached'[p]] = ydoc[attached'[p]]
                 /\ awStates'[attached'[p]] = awStates[attached'[p]]
                 /\ recv'[p] = HandshakeOf(attached'[p])
            ELSE \A f \in recv'[p] \ recv[p] : f[1] \notin {"step1", "awAll"}]_vars

\* C18 witness: a peer attached to an actor that holds an update and another
\* peer's awareness state got sync step 1 of that state and the two states
C18_Witness ==
  \E p \in RelayPeers :
    /\ attached[p] \in ActorId
    /\ <<"step1", 1, 1, 0>> \in recv[p]
    /\ <<"awAll", 2, 2, 0>> \in recv[p]


\* the peer did not answer the last ping sent to it
Unanswered(k) == srv.conn[k].pings > 0 /\ ~srv.conn[k].answered

\* C17: on a keep-alive tick of an open connection, a peer whose previous ping
\* was not answered is terminated, gets no further ping and no further tick; a
\* peer that answered (or was not pinged yet) gets a new ping and is not
\* terminated. So only peers with an unanswered ping are ever terminated.
C17_KeepAlive ==
  [][\A k \in Conn :
       /\ (srv.conn[k].ws # "open" \/ ~KeepAliveTick(k)) \/
            IF Unanswered(k)
            THEN /\ srv'.conn[k].ws = "terminated"
                 /\ srv'.conn[k].pings = srv.conn[k].pings
                 /\ ~srv'.conn[k].pingInterval
            ELSE /\ srv'.conn[k].ws = "open"
                 /\ srv'.conn[k].pings = srv.conn[k].pings + 1
                 /\ srv'.conn[k].pingInterval
       /\ (srv'.conn[k].killed /\ ~srv.conn[k].killed) => Unanswered(k)
       /\ srv'.conn[k].ws = "terminated" => srv'.conn[k].killed]_vars

\* C17 witness: one peer answered its pings and got the next one, another did
\* not answer and was terminated
C17_Witness ==
  \E j, k \in Conn :
    /\ srv.conn[j].ws = "open" /\ srv.conn[j].pings = 2 /\ ~srv.conn[j].killed
    /\ srv.conn[k].killed /\ srv.conn[k].pings = 1

\* C19: a connection gets a session only if the strategy verified its request;
\* a request the strategy rejects carries the strategy's status code, has its
\* socket destroyed and never gets a session or a doc; without a strategy no
\* request is rejected.
C19_OnlyVerifiedSessions ==
  srv.pc # "off" =>
    \A k \in Conn :
      LET c == srv.conn[k]
          credOk == srv.auth = "none" \/ c.cred = "valid"
      IN /\ (c.session \/ c.attached \/ c.task # "none") =>
              (c.req = "accepted" /\ credOk)
         /\ (c.req # "none" /\ ~credOk) =>
              /\ c.req = "rejected"
              /\ c.status = Unauthorized
              /\ c.ws = "destroyed"
              /\ ~c.session /\ ~c.attached /\ c.task = "none"
         /\ (c.req # "none" /\ srv.auth = "none") => c.req # "rejected"
         /\ c.req = "rejected" => ~credOk

\* C19 witness: under the token strategy one request was rejected with 401 and
\* another one, with the token, runs a session
C19_Witness ==
  /\ srv.pc # "off" /\ srv.auth = "token"
  /\ \E j, k \in Conn :
       /\ srv.conn[j].req = "rejected" /\ srv.conn[j].status = Unauthorized
       /\ srv.conn[j].ws = "destroyed"
       /\ srv.conn[k].attached /\ srv.conn[k].cred = "valid"

\* C20: once stop() is past waitForAll (it closes the socket server and the
\* broker client), every tear-down task registered before or while it waited
\* has settled.
C20_StopAwaitsEveryTask ==
  srv.pc \in {"wssClose", "clientClose", "httpClose", "httpClosing", "stopped"} =>
    \A k \in Conn :
      srv.conn[k].early => srv.conn[k].task # "pending"


\* C21: getDoc of the object store returns absent for an object that is not
\* found, returns absent and logs for a credential or permission failure, and
\* rethrows every other error; without an error it returns the body served.
C21_StoreGetErrors ==
  (s3.pc = "on" /\ s3.last.op = "getDoc") =>
    LET resp == s3.last.resp
        out == s3.last.out
    IN /\ resp.error.class = "notFound" =>
            (out.null /\ out.thrown = NoError)
       /\ resp.error.class = "credential" =>
            (out.null /\ out.thrown = NoError /\ out.logged)
       /\ resp.error.class = "other" => out.thrown = resp.error
       /\ resp.ok => out.thrown = NoError
       /\ (resp.ok /\ resp.hasBody) =>
            (~out.null /\ out.ret = s3.objects[s3.last.key])

\* C21 witness: with an object stored under the key, a getDoc that met an
\* access error returned absent and logged
C21_Witness ==
  /\ s3.pc = "on" /\ s3.last.op = "getDoc"
  /\ s3.last.key \in s3.present
  /\ s3.last.resp.error.class = "credential"
  /\ s3.last.out.null /\ s3.last.out.logged


\* C22: decoding the encoding of a well-formed snapshot gives the snapshot
\* back, and a snapshot that saveSnapshot stored is accepted by loadSnapshot
\* and loaded equal to what was saved.
C22_SnapshotRoundTrip ==
  s3.pc = "on" =>
    /\ s3.last.op = "saveSnapshot" =>
         LET back == DecodeSnapshot(FALSE, EncodeSnapshot(s3.last.saved))
         IN ~back.null /\ back = s3.last.saved
    /\ (/\ s3.last.op = "loadSnapshot" /\ s3.last.resp.ok
        /\ ~s3.written[s3.last.key].null) =>
         (~s3.last.loaded.null /\ s3.last.loaded = s3.written[s3.last.key])

\* C22 witness: a snapshot with state bytes was saved and then loaded
C22_Witness ==
  /\ s3.pc = "on" /\ s3.last.op = "loadSnapshot"
  /\ ~s3.last.loaded.null
  /\ s3.last.loaded = s3.written[s3.last.key]
  /\ s3.last.loaded.state = <<1, 255>>
  /\ s3.last.loaded.messageCount = 10


\* C23: one restore folds at most snapshotInterval SYNC messages, and once
\* it has folded that many its reader position does not move, whatever is
\* left on the topic.
C23_ReplayCapped ==
  /\ [](rs.pc \in {"reading", "done"} =>
          (Cardinality(FoldedNow) <= snapshotInterval
           /\ rs.messageCount <= snapshotInterval))
  /\ [][(rs.pc = "reading" /\ Cardinality(FoldedNow) >= snapshotInterval) =>
          rs'.pos = rs.pos]_vars

\* C23 witness: a restore ended after snapshotInterval messages with more
\* SYNC messages left on the topic
C23_Witness ==
  /\ rs.pc = "done"
  /\ Cardinality(FoldedNow) = snapshotInterval
  /\ rs.pos < Len(rs.log)
  /\ rs.log[rs.pos + 1].kind = messageSync


\* a step stays within document d: nothing is sent to the peers of another
\* document, no actor of another document changes, and what it publishes goes
\* to the topic of d
Isolated(d) ==
  /\ \A q \in DocsPeers : DocName(Home(q)) # d => recv'[q] = recv[q]
  /\ \A b \in ActorId :
       DocName(InstOf(b)) # d =>
         /\ ydoc'[b] = ydoc[b] /\ awStates'[b] = awStates[b]
         /\ awClock'[b] = awClock[b] /\ conns'[b] = conns[b]
  /\ \A k \in (Len(topic) + 1)..Len(topic') :
       topic'[k].name = getFullTopicName(d)

\* C24: a frame of a peer of document D, and a message of D's topic, reach
\* only the actor, the peers and the topic of D; every peer is attached to an
\* actor of the document it asked for, documents have distinct topics and
\* subscriptions, and a message is consumed only by an actor of its document.
C24_DocumentIsolation ==
  [][/\ \A p \in DocsPeers :
          Isolated(DocName(Home(p))) \/ \A m \in Frames : ~OnMessage(p, m)
     /\ \A a \in ActorId, k \in 1..Len(topic) :
          \/ (topic[k].name = getFullTopicName(DocName(InstOf(a)))
              /\ Isolated(DocName(InstOf(a))))
          \/ ~ConsumerReceive(a, k)
     /\ \A p \in DocsPeers :
          attached[p] \in ActorId => DocName(InstOf(attached[p])) = DocName(Home(p))
     /\ \A a, b \in ActorId :
          DocName(InstOf(a)) # DocName(InstOf(b)) =>
            (TopicOf(a) # TopicOf(b) /\ SubscriptionOf(a) # SubscriptionOf(b))
     /\ \A k \in 1..Len(topic) :
          /\ topic[k].name = getFullTopicName(DocName(InstOf(topic[k].from)))
          /\ delivered[k] \in ActorId =>
               DocName(InstOf(delivered[k])) = DocName(InstOf(topic[k].from))]_vars

\* C24 witness: both documents have a running actor with a peer, a SYNC frame
\* of one document was published and consumed, and the peer of the other
\* document got nothing but its handshake
C24_Witness ==
  /\ \A p \in DocsPeers : sock[p] = "open" /\ attached[p] \in ActorId
  /\ \E k \in 1..Len(topic) :
       /\ SyncMessage(k) /\ topic[k].name = getFullTopicName("d1")
       /\ delivered[k] \in ActorId
  /\ \A f \in recv["p4"] : f[1] \in {"step1", "awAll"}
  /\ ydoc[attached["p4"]] = {}

\* C25: whatever terminal events reach one peer (close event, error event,
\* ping-timeout or other loss of the socket, refused or failed send) and in
\* whatever order, the detach of the peer takes effect exactly once: the
\* first event removes the peer from the map, removes the awareness ids of
\* its map entry and schedules the tear-down if the map is then empty; every
\* later event changes nothing, and the peer never returns to the map.
Detached(st, p, a) ==
  LET gone == DOMAIN conns[a] \ DOMAIN st.conns[a] IN
  /\ p \notin DOMAIN st.conns[a]
  /\ st.awStates[a] \cap conns[a][p] = {}
  /\ IF DOMAIN st.conns[a] = {}
     THEN st.dClose[a] - dClose[a] \in 1..Cardinality(gone)
     ELSE st.dClose[a] = dClose[a]
NothingDetached(st) ==
  /\ st.conns = conns /\ st.awStates = awStates /\ st.awClock = awClock
  /\ st.dClose = dClose /\ st.recv = recv /\ st.topic = topic
  /\ st.producer = producer /\ st.consumer = consumer
AfterStep == [recv |-> recv', conns |-> conns', awStates |-> awStates',
          awClock |-> awClock', ydoc |-> ydoc', producer |-> producer',
          consumer |-> consumer', dClose |-> dClose', topic |-> topic',
          delivered |-> delivered']
C25_DetachExactlyOnce ==
  /\ [][\A p \in RelayPeers : attached[p] \in ActorId =>
         /\ (CloseEvent(p) \/ ErrorEvent(p) \/ SendFailed(p)) =>
              IF p \in DOMAIN conns[attached[p]]
              THEN Detached(AfterStep, p, attached[p])
              ELSE NothingDetached(AfterStep)
         /\ (gpc[p] = "returned" /\ p \notin DOMAIN conns[attached[p]]) =>
              p \notin DOMAIN conns'[attached[p]]]_vars
  /\ [](\A p \in RelayPeers :
          (attached[p] \in ActorId /\ sock[p] \in {"dead", "closed"}) =>
            LET a == attached[p]
                st == Send(Cur, a, p, <<"sync", 1, 0, 0>>)
            IN /\ IF p \in DOMAIN conns[a] THEN Detached(st, p, a)
                  ELSE NothingDetached(st)
               /\ st.recv[p] = recv[p]
               /\ Send(st, a, p, <<"sync", 1, 0, 0>>) = st
               /\ OnCloseFx(st, p, a) = st)
\* both peers were attached; one is detached while its close event is still
\* to come (by an error event or a failed or refused send), the other's
\* close event has run, and the tear-down was scheduled once
C25_Witness ==
  /\ \A p \in RelayPeers : attached[p] = <<"X", 1>> /\ gpc[p] = "returned"
  /\ sock["p1"] = "closed" /\ sock["p2"] = "dead"
  /\ DOMAIN conns[<<"X", 1>>] = {}
  /\ dClose[<<"X", 1>>] = 1
\* C26: a broker message that is empty, has the kind byte only or has an
\* unknown kind byte is acknowledged by the consumer that receives it and
\* dropped: CRDT state, awareness, the peers' frames, the peer map and the
\* topic stay as they were, and the loop is still running on an open consumer.
Unusable(data) ==
  \/ Len(data) = 0
  \/ Len(Tail(data)) = 0
  \/ data[1] \notin {messageSync, messageAwareness}
C26_UnusableMessageDropped ==
  [][\A a \in ActorId, k \in 1..Len(topic) :
       (Unusable(topic[k].data) /\ ConsumerReceive(a, k)) =>
         /\ delivered'[k] = a
         /\ ydoc' = ydoc /\ awStates' = awStates /\ awClock' = awClock
         /\ recv' = recv /\ conns' = conns /\ topic' = topic
         /\ dClose' = dClose /\ producer' = producer
         /\ loop'[a] = "running" /\ consumer'[a] = "open"]_vars
\* an actor that holds no update dropped an empty message and then one of
\* unknown kind whose body is that of a valid update, both acknowledged
C26_Witness ==
  /\ Len(topic) = 2
  /\ topic[1].data = <<>> /\ topic[2].data = <<7, 1>>
  /\ delivered[1] \in ActorId /\ delivered[2] = delivered[1]
  /\ ydoc[delivered[1]] = {}

\* C27: the consumer loop of an actor has exited only if its consumer is
\* disconnected; a receive error on a connected consumer leaves it running.
C27_LoopExitsOnlyDisconnected ==
  \A a \in ActorId :
    loop[a] = "exited" => (consumer[a] # "open" \/ ~clientOk[InstOf(a)])
\* C28: when the creation of an actor fails, the registry has no entry for
\* the name at the moment getYDoc throws; the registry never holds a failed
\* actor, and a getYDoc that finds the name absent constructs a new actor
\* and begins with attempt 1.
C28_FailedCreationUnregistered ==
  /\ [](\A i \in Inst : docs[i] # NoDoc => cstate[docs[i]] # "failed")
  /\ [][\A p \in RelayPeers :
         /\ GetYDocThrow(p) => docs'[Home(p)] = NoDoc
         /\ (Connect(p) /\ docs[Home(p)] = NoDoc) =>
              /\ cstate[attached'[p]] = "none"
              /\ cstate'[attached'[p]] = "creating"
              /\ docs'[Home(p)] = attached'[p]
              /\ attempt'[p] = 1
         /\ Connect(p) => cstate[attached'[p]] # "failed"]_vars
\* the first creation failed after its last attempt and the peer was refused;
\* the next peer's getYDoc constructed the second actor, which came up
C28_Witness ==
  /\ cstate[<<"X", 1>>] = "failed" /\ closeCode["p1"] = InternalError
  /\ attached["p2"] = <<"X", 2>> /\ cstate[<<"X", 2>>] = "ready"
  /\ docs["X"] = <<"X", 2>>
\* C29: when a peer's update is applied, the other peers of the actor whose
\* sockets are open are sent the frame in the same step, whatever becomes of
\* the publish. A publish that succeeds is on the topic unacknowledged at
\* that moment. A publish that is rejected (producer closed, client
\* disconnected) adds nothing to the topic and has no other effect: the
\* update is integrated, every peer stays in the map, no tear-down is
\* scheduled and producer and consumer are as they were.
PublishAccepted(a) == producer[a] = "open" /\ clientOk[InstOf(a)]
C29_PublishNeverBlocksLocal ==
  [][\A p \in RelayPeers, u \in Updates :
       (/\ sock[p] = "open"
        /\ ~destroyed[attached[p]]
        /\ u \notin ydoc[attached[p]]
        /\ OnMessage(p, EncSyncUpdate(u))) =>
         LET a == attached[p] IN
         /\ ydoc'[a] = ydoc[a] \cup {u}
         /\ \A q \in DOMAIN conns[a] \ {p} :
              sock[q] \in {"setup", "open"} =>
                <<"sync", u, 0, 0>> \in recv'[q] /\ q \in DOMAIN conns'[a]
         /\ p \in DOMAIN conns'[a]
         /\ dClose' = dClose /\ sock' = sock
         /\ IF producer[a] = "null" THEN topic' = topic
            ELSE IF PublishAccepted(a)
            THEN /\ Len(topic') = Len(topic) + 1
                 /\ topic'[Len(topic')].data = <<messageSync, u>>
                 /\ delivered'[Len(topic')] \notin ActorId
                 /\ producer' = producer /\ consumer' = consumer
            ELSE /\ topic' = topic
                 /\ producer' = producer /\ consumer' = consumer]_vars
\* during an outage a peer's update was integrated and sent to the other
\* peer although nothing was published; both peers are still attached
C29_Witness ==
  /\ \A p \in RelayPeers : attached[p] = <<"X", 1>> /\ sock[p] = "open"
  /\ DOMAIN conns[<<"X", 1>>] = RelayPeers
  /\ ~clientOk["X"] /\ producer[<<"X", 1>>] # "null"
  /\ 1 \in ydoc[<<"X", 1>>]
  /\ <<"sync", 1, 0, 0>> \in recv["p2"]
  /\ Len(topic) = 0 /\ dClose[<<"X", 1>>] = 0
\* C30: when the update of a peer P is broadcast, every other peer that is in
\* the actor's map when the broadcast begins and whose socket is open is sent
\* the frame and stays in the map with its entry; every one whose socket is
\* gone is detached and sent nothing; after the broadcast the map holds
\* exactly the peers it held before whose sockets are open.
C30_BroadcastReachesAttached ==
  [][\A p \in BroadcastPeers, u \in Updates :
       (/\ sock[p] = "open"
        /\ ~destroyed[attached[p]]
        /\ u \notin ydoc[attached[p]]
        /\ OnMessage(p, EncSyncUpdate(u))) =>
         LET a == attached[p] IN
         /\ \A q \in DOMAIN conns[a] \ {p} :
              IF sock[q] \in {"setup", "open"}
              THEN /\ <<"sync", u, 0, 0>> \in recv'[q]
                   /\ q \in DOMAIN conns'[a]
                   /\ conns'[a][q] = conns[a][q]
              ELSE /\ q \notin DOMAIN conns'[a]
                   /\ recv'[q] = recv[q]
         /\ <<"sync", u, 0, 0>> \notin recv'[p]
         /\ DOMAIN conns'[a] =
              {q \in DOMAIN conns[a] : sock[q] \in {"setup", "open"}}]_vars
\* three peers on one actor: the socket of p2 was gone when the update of p1
\* was broadcast, so the broadcast detached p2, and p5 was sent the frame
C30_Witness ==
  /\ \A p \in BroadcastPeers : attached[p] = <<"X", 1>>
  /\ sock["p1"] = "open" /\ sock["p2"] = "dead" /\ sock["p5"] = "open"
  /\ DOMAIN conns[<<"X", 1>>] = {"p1", "p5"}
  /\ <<"sync", 1, 0, 0>> \in recv["p5"]
  /\ <<"sync", 1, 0, 0>> \notin recv["p2"]
  /\ <<"sync", 1, 0, 0>> \notin recv["p1"]
\* C31: the creation of an actor leaves the shared broker client alone: a
\* step of getYDoc neither replaces the client (its connection state stays
\* as it was) nor closes producers or consumers created on it.
C31_OnlySupervisorReplacesClient ==
  [][\A p \in RelayPeers :
       (gpc[p] = "probe" /\ GetYDocProbe(p)) =>
         /\ clientOk' = clientOk
         /\ \A b \in ActorId :
              (producer[b] = "open" => producer'[b] = "open")
              /\ (consumer[b] = "open" => consumer'[b] = "open")]_vars
\* C32: a peer whose socket went away while its actor was being created is
\* out of the actor's map when the handshake ends: it was sent nothing, it
\* introduced no awareness id and the awareness state is as before, the
\* other peers stay, and if no other peer is in the map the tear-down of the
\* actor has been scheduled. A peer that is in a map has a socket on which
\* its close event or a refused send is still to come.
C32_EarlyCloseLeavesNothing ==
  /\ [][\A p \in RelayPeers :
         (sock[p] = "deadSetup" /\ GetYDocSubscribe(p)) =>
           LET a == attached[p] IN
           /\ sock'[p] = "closed"
           /\ p \notin DOMAIN conns'[a]
           /\ recv'[p] = recv[p]
           /\ introduced'[p] = {}
           /\ awStates'[a] = awStates[a]
           /\ \A q \in DOMAIN conns[a] : sock[q] = "open" => q \in DOMAIN conns'[a]
           /\ (DOMAIN conns'[a] = {}) => dClose'[a] = dClose[a] + 1]_vars
  /\ [](\A p \in RelayPeers, a \in ActorId :
          p \in DOMAIN conns[a] => sock[p] \in {"open", "dead"})
\* the only peer of an actor lost its socket during the creation; the
\* creation came up, the handshake detached the peer and the actor's
\* tear-down has run
C32_Witness ==
  /\ sock["p1"] = "closed" /\ closeCode["p1"] = 0
  /\ attached["p1"] = <<"X", 1>> /\ gpc["p1"] = "returned"
  /\ recv["p1"] = {}
  /\ sock["p2"] = "idle"
  /\ DOMAIN conns[<<"X", 1>>] = {}
  /\ destroyed[<<"X", 1>>]
\* C33: when an actor created for the name has loaded from the store, it
\* holds every update the actor constructed before it has applied.
C33_SuccessorHasPredecessorState ==
  [][\A g \in Gen \ {1} :
       PersistLoaded(g) => ps.ydoc[g - 1] \subseteq ps'.ydoc[g]]_vars
\* C34: whatever getYDoc returns, to the creator or to a caller that found
\* the name registered, was at the return the registered actor, with no
\* tear-down begun, and with producer and consumer open on the current client.
C34_ReturnedActorRuns ==
  \A p \in Peer : ret[p].how # "none" => ret[p].running
\* C35: the end of an actor's tear-down leaves the registry entry of its
\* name alone when another actor is registered there.
C35_DestroyUnregistersOnlyItself ==
  [][\A a \in ActorId :
       (dClose[a] > 0 /\ docs[InstOf(a)] \notin {a, NoDoc} /\ DestroyFinish(a)) =>
         docs'[InstOf(a)] = docs[InstOf(a)]]_vars
\* C36: when the supervisor's reconnect tears the registered actor down, no
\* peer with an open socket stays bound to it: each is disconnected or bound
\* to an actor that is registered and not under tear-down.
C36_NoPeerOnDeadActor ==
  [][\A i \in RelayInst :
       (rClose[i] > 0 /\ docs[i] # NoDoc /\ ReconnectRebuild(i)) =>
         \A p \in RelayPeers :
           (sock[p] = "open" /\ attached[p] = docs[i]) =>
             \/ sock'[p] # "open"
             \/ /\ attached'[p] = docs'[Home(p)]
                /\ dClose'[attached'[p]] = 0
                /\ ~destroyed'[attached'[p]]]_vars
\* C37: once a peer is attached, the update of every SYNC frame it sent
\* while its actor was being acquired has been applied to the actor.
C37_EarlyFramesProcessed ==
  \A p \in RelayPeers, u \in Updates :
    (gpc[p] = "returned" /\ EncSyncUpdate(u) \in missed[p]) =>
      u \in ydoc[attached[p]]
\* C38: when a restore that folded fewer than snapshotInterval messages, was
\* not cut by the wall-clock cap and had read the topic to its end is followed
\* by the live subscription, no SYNC message lies between the last message
\* replayed and the first message the subscription delivers.
C38_NoGapAfterReplay ==
  (/\ rs.pc = "live"
   /\ ~rs.raced /\ ~rs.failed
   /\ rs.messageCount < snapshotInterval
   /\ rs.pos = rs.tail) =>
    \A k \in (rs.pos + 1)..rs.subAt : rs.log[k].kind # messageSync
\* C39: an actor that is no longer registered, whose creation has ended and
\* on which no tear-down is in flight holds no open producer or consumer.
CreationInFlight(a) ==
  \E q \in Peer :
    /\ attached[q] = a
    /\ gpc[q] \in {"probe", "producer", "subscribe", "backoff", "destroying"}
C39_NoHandleOnUnregisteredActor ==
  \A a \in ActorId :
    (/\ cstate[a] # "none" /\ docs[InstOf(a)] # a
     /\ dClose[a] = 0 /\ ~CreationInFlight(a)) =>
      (producer[a] # "open" /\ consumer[a] # "open")
\* C40: once the restore has returned and its reader is closed, the replay
\* loop issues no read and changes nothing: its counters and the replayed
\* state stay as they were at the return.
C40_ReplayStopsAtReturn ==
  [][(rs.pc = "done" /\ rs'.pc = "done") =>
       /\ rs'.consecutiveTimeouts = rs.consecutiveTimeouts
       /\ rs'.messageCount = rs.messageCount
       /\ rs'.pos = rs.pos
       /\ rs'.ydoc = rs.ydoc]_vars
====
